---- MODULE Spec2Model ----
(***************************************************************************)
(* A model of the knowledge-retrieval and multi-agent pipeline of          *)
(* AgenticMentor: the in-memory interaction log (MemoryAgent), the         *)
(* similarity search with threshold relaxation (VectorStore and            *)
(* SemanticSearch), and the /api/query request handler that sequences      *)
(* retrieval, synthesis and memory storage (AgenticMentor, QAAgent).       *)
(*                                                                         *)
(* Coroutines run on one asyncio event loop: a coroutine keeps the loop    *)
(* until it reaches an await that really suspends, so the code between two *)
(* suspension points is one atomic step of the model.                      *)
(***************************************************************************)
EXTENDS Integers, Sequences, FiniteSets, TLC

VARIABLES
    memory_size,   \* MemoryAgent.memory_size
    memories,      \* MemoryAgent.memories, oldest first
    clock,         \* number of entries created or refreshed so far: orders uuid4() and utcnow()
    mpc,           \* per memory client: where it is inside _store_memory, and the entry it appended
    memOut,        \* what the last finished MemoryAgent call returned or raised, and to whom
    evicted,       \* history: ids of the entries removed by pop(0)
    stored,        \* history: number of _store_memory calls that returned
    learned,       \* history: number of _learn_from_interaction calls that returned
    index,         \* the vector database's collection: chunk ids in insertion order
    searchOut,     \* the last call of the search engine: its arguments and what it returned
    rpc,           \* per request coroutine: the stage of the /api/query handler it is at
    req,           \* per request coroutine: its Query, search results, answer, response and log
    llm,           \* the LLMClient call in progress: provider, attempt, waits and outcome
    parser,        \* the last structured-output call: the text, the expected keys and the outcome
    refl           \* history: the calls of ReflectionAgent.process so far and what each returned

memVars == <<memory_size, memories, clock, mpc, memOut, evicted, stored, learned>>
searchVars == <<index, searchOut>>
reqVars == <<rpc, req>>
llmVars == <<llm>>
parserVars == <<parser, refl>>

vars == <<memory_size, memories, clock, mpc, memOut, evicted, stored, learned,
          index, searchOut, rpc, req, llm, parser, refl>>

---------------------------------------------------------------------------
(* Bounds of the model *)

MaxMemorySize == 2
MaxOps == 3
MaxChunks == 3
MaxLimit == 2

\* the coroutines that call the MemoryAgent concurrently
Tasks == {"a", "b"}

---------------------------------------------------------------------------
(* Values *)

\* Python's None, where a field is a string
None == "None"

Min(a, b) == IF a <= b THEN a ELSE b

SeqToSet(s) == {s[i] : i \in 1..Len(s)}

\* Query objects (models.Query): query_text is kept as its lowercased words.
QueryPool ==
    { [id |-> "q1", user_id |-> "alice", query_text |-> <<"how", "to", "deploy", "api">>],
      [id |-> "q2", user_id |-> "bob",   query_text |-> <<"deploy", "api">>],
      [id |-> "q3", user_id |-> "carol", query_text |-> <<"what", "is", "jest">>] }

\* Response objects (models.AgentResponse).  A response text is described by
\* what the code reads of it: its length, whether it holds a ``` fence, and
\* whether it holds "1." or "step".  confidence_score is in hundredths.
ResponsePool ==
    { [shape |-> "object",
       response_text |-> [name |-> "long", len |-> 250, code |-> TRUE, steps |-> TRUE],
       confidence_score |-> 90, sources |-> 3],
      [shape |-> "object",
       response_text |-> [name |-> "short", len |-> 40, code |-> FALSE, steps |-> FALSE],
       confidence_score |-> 50, sources |-> 0] }

\* satisfaction_score: None when absent.  The code only tests it for truth
\* before use, so None is written 0, which Python treats alike.
NoSatisfaction == 0
SatisfactionPool == {NoSatisfaction, 2, 5}

\* A "query" argument that is missing (data.get gives None).
NoQuery == [id |-> None, user_id |-> None, query_text |-> <<>>]

\* A "response" argument that is missing.
NoResponse ==
    [shape |-> None,
     response_text |-> [name |-> None, len |-> 0, code |-> FALSE, steps |-> FALSE],
     confidence_score |-> 0, sources |-> 0]

\* What main.py hands to _store_memory as "response": a plain dict, which has
\* keys but no attributes.
DictResponse ==
    [shape |-> "dict",
     response_text |-> [name |-> "short", len |-> 40, code |-> FALSE, steps |-> FALSE],
     confidence_score |-> 50, sources |-> 0]

\* `not query`, `not response`
QueryMissing(query) == query.id = None
ResponseMissing(response) == response.shape = None

\* response.response_text exists on an AgentResponse, not on a dict.
HasAttributes(response) == response.shape = "object"

---------------------------------------------------------------------------
(* MemoryAgent: pure helpers *)

\* uuid.uuid4(): a fresh identifier; the n-th one created is n.
NewId(c) == c + 1

\* datetime.utcnow(): non-decreasing; the model's time is the write count.
UtcNow(c) == c + 1

\* _calculate_similarity: Jaccard overlap of the two word sets, as a fraction.
CalculateSimilarity(text1, text2) ==
    LET words1 == SeqToSet(text1)
        words2 == SeqToSet(text2)
    IN  IF words1 = {} \/ words2 = {}
        THEN [num |-> 0, den |-> 1]
        ELSE [num |-> Cardinality(words1 \cap words2),
              den |-> Cardinality(words1 \cup words2)]

\* a.similarity >= b.similarity on fractions with positive denominators
SimGeq(a, b) == a.num * b.den >= b.num * a.den

\* `similarity > 0.3`
RecallFloorNum == 3
RecallFloorDen == 10

\* (variant: `similarity >= 0.3`)
AtOrAboveRecallFloor(sim) == sim.num * RecallFloorDen >= RecallFloorNum * sim.den

AboveRecallFloor(sim) == sim.num * RecallFloorDen > RecallFloorNum * sim.den

\* list.sort(key=similarity, reverse=True): stable, descending.
RECURSIVE SortBySimilarityDesc(_)
SortBySimilarityDesc(s) ==
    IF Len(s) <= 1 THEN s
    ELSE LET front == SortBySimilarityDesc(SubSeq(s, 1, Len(s) - 1))
             x == s[Len(s)]
             \* x goes after every element at least as similar as it
             k == Cardinality({i \in 1..Len(front) : SimGeq(front[i].similarity, x.similarity)})
         IN  SubSeq(front, 1, k) \o <<x>> \o SubSeq(front, k + 1, Len(front))

\* s[:n] for n >= 0
FirstN(s, n) == SubSeq(s, 1, Min(Len(s), n))

\* relevant_memories[:limit]
Truncate(s, limit) == FirstN(s, limit)

TechnicalKeywords == {"code", "implementation", "api", "database", "config"}
ProcessKeywords == {"how", "process", "steps", "procedure"}

DetailedLen == 200
ShortLen == 100
HighSatisfaction == 4
LowSatisfaction == 2
HighConfidence == 80
ManySources == 2

\* _extract_patterns
ExtractPatterns(query, response, satisfaction_score) ==
    LET text == response.response_text
        words == SeqToSet(query.query_text)
    IN  (IF satisfaction_score # NoSatisfaction /\ satisfaction_score >= HighSatisfaction
            /\ text.len > DetailedLen
         THEN <<"detailed_responses_high_satisfaction">> ELSE <<>>)
     \o (IF satisfaction_score # NoSatisfaction /\ satisfaction_score <= LowSatisfaction
            /\ text.len < ShortLen
         THEN <<"short_responses_low_satisfaction">> ELSE <<>>)
     \o (IF words \cap TechnicalKeywords # {} /\ text.code
         THEN <<"technical_queries_need_code_examples">> ELSE <<>>)
     \o (IF words \cap ProcessKeywords # {} /\ text.steps
         THEN <<"process_queries_need_step_by_step">> ELSE <<>>)
     \o (IF response.confidence_score > HighConfidence /\ response.sources > ManySources
         THEN <<"high_confidence_with_multiple_sources">> ELSE <<>>)

\* AgentMemory(...) as built by _store_memory
StoreEntry(query, response, user_id, satisfaction_score, c) ==
    [id |-> NewId(c), query_id |-> query.id, user_id |-> user_id,
     query_text |-> query.query_text, response |-> response.response_text,
     satisfaction_score |-> satisfaction_score, learned_patterns |-> <<>>,
     timestamp |-> UtcNow(c)]

\* AgentMemory(...) as built by _learn_from_interaction
LearnEntry(query, response, satisfaction_score, patterns, c) ==
    [id |-> NewId(c), query_id |-> query.id, user_id |-> query.user_id,
     query_text |-> query.query_text, response |-> response.response_text,
     satisfaction_score |-> satisfaction_score, learned_patterns |-> patterns,
     timestamp |-> UtcNow(c)]

\* self.memories.append(memory)
AppendMemory(mem, entry) == Append(mem, entry)

\* (variant: the size check written >=)
OverflowsAtCapacity(mem, size) == Len(mem) >= size

\* if len(self.memories) > self.memory_size
Overflows(mem, size) == Len(mem) > size

\* (variant: pop() removes the newest entry)
EvictNewest(mem, size) ==
    IF Overflows(mem, size) THEN SubSeq(mem, 1, Len(mem) - 1) ELSE mem

\* if len(self.memories) > self.memory_size: self.memories.pop(0)
EvictOldest(mem, size) == IF Overflows(mem, size) THEN Tail(mem) ELSE mem

\* (variant: the coroutine awaits between the append and the size check)
AwaitAfterAppend == TRUE

\* An await between the append and the size check would release the event
\* loop there; _store_memory has none.
AwaitBetweenAppendAndEvict == FALSE

Ids(mem) == {mem[i].id : i \in 1..Len(mem)}

---------------------------------------------------------------------------
(* MemoryAgent: operations.  Each client is a coroutine calling            *)
(* MemoryAgent.process; none of the operations awaits anything that        *)
(* suspends, so each runs to its end once it has the event loop.           *)

\* A client may run when no other coroutine is inside a step it has not yet
\* left by an await.
CanRun(t) ==
    \A u \in Tasks \ {t} : mpc[u].at = "appended" => AwaitBetweenAppendAndEvict

Ready == [at |-> "ready", memory_id |-> 0]

Raised(t, op, exc) == [op |-> op, raised |-> exc, value |-> <<>>]
Returned(t, op, v) == [op |-> op, raised |-> None, value |-> v]

\* _store_memory, lines 42-63: validation, the new entry, the append
StoreAppend(t, query, response, satisfaction_score) ==
    /\ mpc[t].at = "ready"
    /\ CanRun(t)
    /\ IF QueryMissing(query) \/ ResponseMissing(response)
       THEN /\ memOut' = Raised(t, "store", "ValueError")
            /\ UNCHANGED <<memory_size, memories, clock, mpc, evicted, stored, learned>>
       ELSE IF ~HasAttributes(response)
       THEN /\ memOut' = Raised(t, "store", "AttributeError")
            /\ UNCHANGED <<memory_size, memories, clock, mpc, evicted, stored, learned>>
       ELSE /\ clock < MaxOps
            /\ LET user_id == "anonymous"
                   memory == StoreEntry(query, response, user_id, satisfaction_score, clock)
               IN  /\ memories' = AppendMemory(memories, memory)
                   /\ mpc' = [mpc EXCEPT ![t] = [at |-> "appended", memory_id |-> memory.id]]
            /\ clock' = clock + 1
            /\ UNCHANGED <<memory_size, memOut, evicted, stored, learned>>

\* _store_memory, lines 64-73: the size check, pop(0), the return
StoreEvict(t) ==
    /\ mpc[t].at = "appended"
    /\ CanRun(t)
    /\ memories' = EvictOldest(memories, memory_size)
    /\ evicted' = evicted \cup (Ids(memories) \ Ids(memories'))
    /\ memOut' = Returned(t, "store", [memory_id |-> mpc[t].memory_id, stored |-> TRUE])
    /\ mpc' = [mpc EXCEPT ![t] = Ready]
    /\ stored' = stored + 1
    /\ UNCHANGED <<memory_size, clock, learned>>

\* _retrieve_memory
RetrieveMemory(t, query_text, limit) ==
    /\ mpc[t].at = "ready"
    /\ CanRun(t)
    /\ IF query_text = <<>>
       THEN memOut' = Raised(t, "retrieve", "ValueError")
       ELSE LET scored == [i \in 1..Len(memories) |->
                              [memory |-> memories[i],
                               similarity |-> CalculateSimilarity(query_text, memories[i].query_text)]]
                relevant == SelectSeq(scored, LAMBDA m : AboveRecallFloor(m.similarity))
                result == Truncate(SortBySimilarityDesc(relevant), limit)
            IN  memOut' = Returned(t, "retrieve", [memories |-> result, count |-> Len(result)])
    /\ UNCHANGED <<memory_size, memories, clock, mpc, evicted, stored, learned>>

\* the first memory with this query_id, 0 when there is none
FindExisting(mem, query_id) ==
    LET hits == {i \in 1..Len(mem) : mem[i].query_id = query_id}
    IN  IF hits = {} THEN 0 ELSE CHOOSE i \in hits : \A j \in hits : i <= j

\* _learn_from_interaction
LearnFromInteraction(t, query, response, satisfaction_score) ==
    /\ mpc[t].at = "ready"
    /\ CanRun(t)
    /\ IF QueryMissing(query) \/ ResponseMissing(response)
       THEN /\ memOut' = Raised(t, "learn", "ValueError")
            /\ UNCHANGED <<memory_size, memories, clock, mpc, evicted, stored, learned>>
       ELSE IF ~HasAttributes(response)
       THEN /\ memOut' = Raised(t, "learn", "AttributeError")
            /\ UNCHANGED <<memory_size, memories, clock, mpc, evicted, stored, learned>>
       ELSE /\ clock < MaxOps
            /\ LET patterns == ExtractPatterns(query, response, satisfaction_score)
                   k == FindExisting(memories, query.id)
               IN  /\ memories' =
                          IF k # 0
                          THEN [memories EXCEPT
                                   ![k].response = response.response_text,
                                   ![k].satisfaction_score = satisfaction_score,
                                   ![k].learned_patterns = memories[k].learned_patterns \o patterns,
                                   ![k].timestamp = UtcNow(clock)]
                          ELSE AppendMemory(memories,
                                   LearnEntry(query, response, satisfaction_score, patterns, clock))
                   /\ memOut' = Returned(t, "learn", [learned |-> TRUE, patterns_learned |-> patterns])
            /\ clock' = clock + 1
            /\ learned' = learned + 1
            /\ UNCHANGED <<memory_size, mpc, evicted, stored>>

RECURSIVE SumSeq(_)
SumSeq(s) == IF s = <<>> THEN 0 ELSE Head(s) + SumSeq(Tail(s))

\* sum(scores) / len(scores) if scores else 0, as a fraction
Average(scores) ==
    IF scores = <<>> THEN [num |-> 0, den |-> 1]
    ELSE [num |-> SumSeq(scores), den |-> Len(scores)]

\* occurrences of x in the sequence s
CountIn(s, x) == Cardinality({i \in 1..Len(s) : s[i] = x})

RECURSIVE Flatten(_)
Flatten(ss) == IF ss = <<>> THEN <<>> ELSE Head(ss) \o Flatten(Tail(ss))

ShortWordLen == 3

\* _analyze_patterns
AnalyzePatterns(t, time_period, min_occurrences) ==
    /\ mpc[t].at = "ready"
    /\ CanRun(t)
    /\ LET cutoff_date == UtcNow(clock) - time_period
           recent_memories == SelectSeq(memories, LAMBDA m : m.timestamp >= cutoff_date)
           words == Flatten([i \in 1..Len(recent_memories) |-> recent_memories[i].query_text])
           long == SelectSeq(words, LAMBDA w : Len(w) > ShortWordLen)
           common == {w \in SeqToSet(long) : CountIn(long, w) >= min_occurrences}
           rated == SelectSeq(recent_memories, LAMBDA m : m.satisfaction_score # NoSatisfaction)
           satisfaction_trends == [i \in 1..Len(rated) |-> rated[i].satisfaction_score]
       IN  memOut' = Returned(t, "analyze",
               [time_period_days |-> time_period,
                total_interactions |-> Len(recent_memories),
                common_query_patterns |-> [w \in common |-> CountIn(long, w)],
                average_satisfaction |-> Average(satisfaction_trends),
                satisfaction_trend |-> satisfaction_trends])
    /\ UNCHANGED <<memory_size, memories, clock, mpc, evicted, stored, learned>>

\* get_memory_stats
GetMemoryStats(t) ==
    /\ mpc[t].at = "ready"
    /\ CanRun(t)
    /\ LET total_memories == Len(memories)
           rated == SelectSeq(memories, LAMBDA m : m.satisfaction_score # NoSatisfaction)
           scores == [i \in 1..Len(rated) |-> rated[i].satisfaction_score]
           all_patterns == Flatten([i \in 1..Len(memories) |-> memories[i].learned_patterns])
       IN  memOut' =
             IF total_memories = 0
             THEN Returned(t, "stats", [total_memories |-> 0])
             ELSE Returned(t, "stats",
                    [total_memories |-> total_memories,
                     average_satisfaction |-> Average(scores),
                     pattern_counts |-> [p \in SeqToSet(all_patterns) |-> CountIn(all_patterns, p)],
                     memory_size_limit |-> memory_size])
    /\ UNCHANGED <<memory_size, memories, clock, mpc, evicted, stored, learned>>

---------------------------------------------------------------------------
(* Inputs of the memory operations *)

Q1 == CHOOSE q \in QueryPool : q.id = "q1"
Q2 == CHOOSE q \in QueryPool : q.id = "q2"
LongResponse == CHOOSE r \in ResponsePool : r.response_text.name = "long"
ShortResponse == CHOOSE r \in ResponsePool : r.response_text.name = "short"

\* (query, response) arguments of store; the last three are malformed calls
StoreArgs ==
    { <<Q1, LongResponse>>, <<Q2, ShortResponse>>,
      <<NoQuery, ShortResponse>>, <<Q1, NoResponse>>, <<Q1, DictResponse>> }

\* (query, response, satisfaction_score) arguments of learn
LearnArgs ==
    { <<Q1, LongResponse, 5>>, <<Q2, ShortResponse, 2>>, <<Q1, ShortResponse, NoSatisfaction>>,
      <<NoQuery, ShortResponse, 5>>, <<Q2, NoResponse, 5>>, <<Q2, DictResponse, 5>> }

\* a query text that shares 3 of the 10 words it and Q1's text have together
FloorQuery ==
    <<"how", "to", "deploy", "the", "new", "billing", "service", "on", "staging">>

\* (query_text, limit) arguments of retrieve
RecallArgs == { <<Q1.query_text, 1>>, <<Q2.query_text, 5>>, <<FloorQuery, 5>>, << <<>>, 5 >> }

\* (time_period, min_occurrences) arguments of analyze
AnalyzeArgs == { <<1, 1>>, <<30, 2>> }

MemoryEmpty ==
    /\ memory_size \in 0..MaxMemorySize
    /\ memories = <<>>
    /\ clock = 0
    /\ mpc = [t \in Tasks |-> Ready]
    /\ memOut = [op |-> None, raised |-> None, value |-> <<>>]
    /\ evicted = {}
    /\ stored = 0
    /\ learned = 0

---------------------------------------------------------------------------
(* VectorStore and SemanticSearch.  Scores and distances are in units of   *)
(* 0.00001, so that 1.0 is Scale.                                          *)

Scale == 100000

\* KnowledgeChunk records that crawlers may add.  content is described by its
\* length, created_at by its day number.
ChunkPool ==
    { [id |-> "c1", source_type |-> "github",     content |-> [name |-> "jest",   len |-> 1200], created_at |-> 99],
      [id |-> "c2", source_type |-> "confluence", content |-> [name |-> "auth0",  len |-> 600],  created_at |-> 10],
      [id |-> "c3", source_type |-> "jira",       content |-> [name |-> "flyway", len |-> 100],  created_at |-> 99],
      [id |-> "c4", source_type |-> "github",     content |-> [name |-> "deploy", len |-> 100],  created_at |-> 10] }

ChunkIds == {c.id : c \in ChunkPool}
ChunkOf(id) == CHOOSE c \in ChunkPool : c.id = id

\* datetime.utcnow() of search_recent, as a day number
Today == 100

\* the query get_all_chunks sends
GetAllQuery == <<"repository", "project", "code", "documentation">>

SearchQueries == {q.query_text : q \in QueryPool} \cup {GetAllQuery}

\* a query of build_graph
GraphQuery == <<"jest", "config">>

\* The cosine distance the embedding model and the collection give between a
\* query and a chunk: a fixed table standing for the external model.
Distance(query, id) ==
    CASE query = <<"how", "to", "deploy", "api">> ->
            (CASE id = "c1" -> 10000 [] id = "c2" -> 99900 [] id = "c3" -> 99950 [] OTHER -> 99995)
      [] query = <<"deploy", "api">> ->
            (CASE id = "c1" -> 99990 [] id = "c2" -> 99995 [] id = "c3" -> 100000 [] OTHER -> 120000)
      [] query = <<"what", "is", "jest">> ->
            (CASE id = "c1" -> 30000 [] id = "c2" -> 45000 [] id = "c3" -> 45000 [] OTHER -> 99995)
      [] query = <<"jest", "config">> ->
            (CASE id = "c1" -> 50000 [] id = "c2" -> 40000 [] id = "c3" -> 30000 [] OTHER -> 49999)
      [] OTHER ->
            (CASE id = "c1" -> 40000 [] id = "c2" -> 40000 [] id = "c3" -> 70000 [] OTHER -> 120000)

\* 1 - results['distances'][0][i]
ToSimilarity(distance) == Scale - distance

\* `filters` of VectorStore.search: none, or created_at >= a cutoff
NoFilters == [present |-> FALSE, created_at_gte |-> 0]
CreatedSince(day) == [present |-> TRUE, created_at_gte |-> day]

\* the where clause: source_type $in source_types (when given), and filters
WhereMatches(chunk, source_types, filters) ==
    /\ source_types # {} => chunk.source_type \in source_types
    /\ filters.present => chunk.created_at >= filters.created_at_gte

\* nearest first; equal distances in insertion order
RECURSIVE SortByDistance(_, _)
SortByDistance(ids, query) ==
    IF Len(ids) <= 1 THEN ids
    ELSE LET front == SortByDistance(SubSeq(ids, 1, Len(ids) - 1), query)
             x == ids[Len(ids)]
             k == Cardinality({i \in 1..Len(front) : Distance(query, front[i]) <= Distance(query, x)})
         IN  SubSeq(front, 1, k) \o <<x>> \o SubSeq(front, k + 1, Len(front))

\* collection.query(query_embeddings, n_results, where): the n_results nearest
\* chunks that match
CollectionQuery(idx, query, n_results, source_types, filters) ==
    LET matching == SelectSeq(idx, LAMBDA id : WhereMatches(ChunkOf(id), source_types, filters))
    IN  FirstN(SortByDistance(matching, query), n_results)

\* what may go wrong inside the vector store: nothing, embedding_model.encode
\* raising, or the collection call raising
NoFault == "none"
Faults == {NoFault, "embedding", "collection"}

\* VectorStore.search: raises when the embedding or the collection fails
VectorStoreSearch(idx, query, limit, source_types, filters, fault) ==
    IF fault # NoFault
    THEN [raised |-> TRUE, results |-> <<>>]
    ELSE LET found == CollectionQuery(idx, query, limit, source_types, filters)
         IN  [raised |-> FALSE,
              results |-> [i \in 1..Len(found) |->
                             [chunk |-> ChunkOf(found[i]),
                              similarity_score |-> ToSimilarity(Distance(query, found[i]))]]]

VeryHighSimilarity == 80000
HighSimilarity == 60000
ModerateSimilarity == 40000
DetailedContent == 1000
ModerateContent == 500

SourceExplanation(source_type) ==
    CASE source_type = "github" -> "Code or documentation from repository"
      [] source_type = "jira" -> "Issue tracking or project management information"
      [] source_type = "confluence" -> "Documentation or knowledge base article"
      [] source_type = "slack" -> "Team discussion or communication"
      [] source_type = "email" -> "Email communication or decision"
      [] source_type = "manual" -> "Manually added knowledge"
      [] OTHER -> "Unknown source type"

\* _generate_relevance_explanation: the three parts joined by "; "
GenerateRelevanceExplanation(chunk, similarity_score) ==
    << (IF similarity_score > VeryHighSimilarity THEN "Very high semantic similarity"
        ELSE IF similarity_score > HighSimilarity THEN "High semantic similarity"
        ELSE IF similarity_score > ModerateSimilarity THEN "Moderate semantic similarity"
        ELSE "Low semantic similarity"),
       SourceExplanation(chunk.source_type),
       (IF chunk.content.len > DetailedContent THEN "Detailed content"
        ELSE IF chunk.content.len > ModerateContent THEN "Moderate detail"
        ELSE "Brief content") >>

\* SearchResult(chunk, similarity_score, relevance_explanation)
ToSearchResult(result) ==
    [chunk |-> result.chunk,
     similarity_score |-> result.similarity_score,
     relevance_explanation |-> GenerateRelevanceExplanation(result.chunk, result.similarity_score)]

MapSearchResults(results) == [i \in 1..Len(results) |-> ToSearchResult(results[i])]

\* min_similarity: float = 0.001
DefaultMinSimilarity == 100

\* `>= 0.0001  # Extremely low threshold`
RelaxedFloor == 10

\* results whose score reaches the floor
AtLeast(results, floor) == SelectSeq(results, LAMBDA r : r.similarity_score >= floor)

\* (variant: no second pass)
RelaxNothing(results) == <<>>

\* the second pass over the candidates, with the relaxed floor
Relax(results) == AtLeast(results, RelaxedFloor)

\* search_results.sort(key=similarity_score, reverse=True): stable, descending
RECURSIVE SortByScoreDesc(_)
SortByScoreDesc(s) ==
    IF Len(s) <= 1 THEN s
    ELSE LET front == SortByScoreDesc(SubSeq(s, 1, Len(s) - 1))
             x == s[Len(s)]
             k == Cardinality({i \in 1..Len(front) : front[i].similarity_score >= x.similarity_score})
         IN  SubSeq(front, 1, k) \o <<x>> \o SubSeq(front, k + 1, Len(front))

\* (variant: the exception is re-raised)
Reraise == [raised |-> TRUE, results |-> <<>>]

\* except Exception: log the error, return []
ReturnEmpty == [raised |-> FALSE, results |-> <<>>]

OverFetch == 3

\* (variant: the slice is missing)
KeepAllResults(s, limit) == s

\* search_results[:limit]
LimitResults(s, limit) == FirstN(s, limit)

\* SemanticSearch.search
SemanticSearch(idx, query, limit, source_types, filters, min_similarity, fault) ==
    LET found == VectorStoreSearch(idx, query, limit * OverFetch, source_types, filters, fault)
    IN  IF found.raised
        THEN [candidates |-> <<>>] @@ ReturnEmpty
        ELSE LET first == AtLeast(found.results, min_similarity)
                 kept == IF first = <<>> THEN Relax(found.results) ELSE first
             IN  [candidates |-> found.results,
                  raised |-> FALSE,
                  results |-> LimitResults(SortByScoreDesc(MapSearchResults(kept)), limit)]

\* search_by_source
SearchBySource(idx, query, source_type, limit, fault) ==
    SemanticSearch(idx, query, limit, {source_type}, NoFilters, DefaultMinSimilarity, fault)

\* search_recent
SearchRecent(idx, query, days, limit, fault) ==
    SemanticSearch(idx, query, limit, {}, CreatedSince(Today - days), DefaultMinSimilarity, fault)

\* get_all_chunks
GetAllChunks(idx, limit, fault) ==
    LET found == VectorStoreSearch(idx, GetAllQuery, limit, {}, NoFilters, fault)
    IN  IF found.raised
        THEN [candidates |-> <<>>] @@ ReturnEmpty
        ELSE [candidates |-> found.results,
              raised |-> FALSE,
              results |-> [i \in 1..Len(found.results) |->
                             [chunk |-> found.results[i].chunk,
                              similarity_score |-> found.results[i].similarity_score,
                              relevance_explanation |-> <<"General repository information">>]]]

\* no messages have been sent to the LLM
NoMessages == [query |-> <<>>, context |-> <<>>]

\* history: what the memory held when the request's retrieval ran
MemorySeen(mem) ==
    [entries |-> Len(mem),
     rated |-> \E i \in 1..Len(mem) : mem[i].satisfaction_score # NoSatisfaction,
     patterns |-> \E i \in 1..Len(mem) : mem[i].learned_patterns # <<>>]

\* a request coroutine that has received nothing yet.  retrieval_failed and
\* memory_seen are history: whether the vector store failed during the
\* retrieval, and what the memory held then.
NoRequest ==
    [query |-> NoQuery, search_results |-> <<>>, llm_calls |-> 0, llm_outcome |-> None,
     result |-> <<>>, store_raised |-> FALSE, response |-> <<>>, log |-> <<>>,
     messages |-> NoMessages, retrieval_failed |-> FALSE, memory_seen |-> MemorySeen(<<>>)]

\* no request is being handled
RequestsIdle ==
    /\ rpc = [r \in Tasks |-> "idle"]
    /\ req = [r \in Tasks |-> NoRequest]

\* graph = {"nodes": [], "edges": []}
EmptyGraph == [nodes |-> <<>>, edges |-> <<>>]

NoSearch ==
    [op |-> None, query |-> <<>>, limit |-> 0, min_similarity |-> 0, fault |-> NoFault,
     failed |-> FALSE, raised |-> FALSE, candidates |-> <<>>, results |-> <<>>,
     graph |-> EmptyGraph]

\* the search engine is not used
SearchIdle == index = <<>> /\ searchOut = NoSearch

\* no LLM call has been made
NoLlmCall ==
    [provider |-> None, at |-> "idle", attempt |-> 0, retry_delay |-> 0, invocations |-> 0,
     sleeps |-> <<>>, failures |-> <<>>, prompt |-> None,
     result |-> [kind |-> None, raised |-> FALSE], calls |-> 0]

LlmIdle == llm = NoLlmCall

\* nothing has been parsed
NoParse ==
    [at |-> "idle", op |-> None, x |-> <<>>, style |-> None, text |-> <<>>,
     expected_keys |-> <<>>, llm_raised |-> FALSE, raised |-> FALSE,
     result |-> [ok |-> FALSE, val |-> <<>>]]

\* no call of the ReflectionAgent yet
NoReflections == [log |-> <<>>]

ParserIdle == parser = NoParse /\ refl = NoReflections

\* MemoryAgent(memory_size) just constructed; no search has been made
InitMemory == MemoryEmpty /\ SearchIdle /\ RequestsIdle /\ LlmIdle /\ ParserIdle

Store(t) ==
    /\ \E args \in StoreArgs : StoreAppend(t, args[1], args[2], NoSatisfaction)
    /\ UNCHANGED <<searchVars, reqVars, llmVars, parserVars>>

Evict(t) ==
    /\ StoreEvict(t)
    /\ UNCHANGED <<searchVars, reqVars, llmVars, parserVars>>

Recall(t) ==
    /\ \E args \in RecallArgs : RetrieveMemory(t, args[1], args[2])
    /\ UNCHANGED <<searchVars, reqVars, llmVars, parserVars>>

Learn(t) ==
    /\ \E args \in LearnArgs : LearnFromInteraction(t, args[1], args[2], args[3])
    /\ UNCHANGED <<searchVars, reqVars, llmVars, parserVars>>

Analyze(t) ==
    /\ \E args \in AnalyzeArgs : AnalyzePatterns(t, args[1], args[2])
    /\ UNCHANGED <<searchVars, reqVars, llmVars, parserVars>>

Stats(t) ==
    /\ GetMemoryStats(t)
    /\ UNCHANGED <<searchVars, reqVars, llmVars, parserVars>>

\* Clients that only store and read: what the request handlers do.
NextStore ==
    \E t \in Tasks :
        \/ Store(t)
        \/ Evict(t)
        \/ Recall(t)
        \/ Stats(t)

SpecStore == InitMemory /\ [][NextStore]_vars

\* Clients using every MemoryAgent operation.
NextMemory ==
    \E t \in Tasks :
        \/ Store(t)
        \/ Evict(t)
        \/ Recall(t)
        \/ Learn(t)
        \/ Analyze(t)
        \/ Stats(t)

SpecMemory == InitMemory /\ [][NextMemory]_vars

---------------------------------------------------------------------------
(* Properties of the memory log *)

Quiescent == \A t \in Tasks : mpc[t].at = "ready"

\* the last call to finish was a store that returned, and nothing has run since
StoreJustCompleted == Quiescent /\ memOut.op = "store" /\ memOut.raised = None

\* C1: with memory_size >= 1, whenever a store operation has just completed
\* the log holds at most memory_size entries, whatever operations (store,
\* learn, recall, analyze, stats) came before.
C1_StoreKeepsBound ==
    (memory_size >= 1 /\ StoreJustCompleted) => Len(memories) <= memory_size

\* C2: from an empty log, after n successful store calls and no other write,
\* the log holds min(n, memory_size) entries.
C2_StoreCount ==
    Quiescent => Len(memories) = Min(stored, memory_size)

C2_Witness ==
    /\ Quiescent
    /\ stored > memory_size
    /\ memory_size >= 1
    /\ Len(memories) = memory_size

MinId(mem) == CHOOSE i \in Ids(mem) : \A j \in Ids(mem) : i <= j

\* the step of a store that checks the size and evicts
EvictStep == \E t \in Tasks : mpc[t].at = "appended" /\ mpc'[t].at = "ready"

\* C3: eviction is FIFO.  A store that makes the log exceed memory_size
\* removes exactly one entry, the one inserted earliest among those present,
\* and leaves the others in their order; a store that does not exceed it
\* removes nothing; the log is always in insertion order; and a recall never
\* returns an entry that was evicted.
C3_FifoEviction ==
    /\ [][EvictStep =>
            IF Len(memories) > memory_size
            THEN /\ Len(memories') = Len(memories) - 1
                 /\ memories' = SelectSeq(memories, LAMBDA m : m.id # MinId(memories))
            ELSE memories' = memories]_vars
    /\ [](\A i, j \in 1..Len(memories) : i < j => memories[i].id < memories[j].id)
    /\ []((memOut.op = "retrieve" /\ memOut.raised = None) =>
            \A i \in 1..Len(memOut.value.memories) :
                memOut.value.memories[i].memory.id \notin evicted)

C3_Witness ==
    /\ evicted # {}
    /\ memOut.op = "retrieve"
    /\ memOut.raised = None
    /\ Len(memOut.value.memories) >= 1

\* C10: the append and the eviction of one store are a critical section.
\* While a store is between its append and its size check the only step
\* taken is that store's own size check, so a reader never sees more than
\* memory_size entries, and every store that overflows brings the log back
\* to memory_size by removing one entry.
C10_StoreCriticalSection ==
    /\ [][(\E t \in Tasks : mpc[t].at = "appended") => EvictStep]_vars
    /\ []((memOut.op = "stats" /\ memOut.raised = None) =>
            memOut.value.total_memories <= memory_size)
    /\ []((memOut.op = "retrieve" /\ memOut.raised = None) =>
            memOut.value.count <= memory_size)
    /\ [][EvictStep =>
            /\ Len(memories') >= Len(memories) - 1
            /\ Len(memories') <= memory_size]_vars

C10_Witness ==
    /\ \E t \in Tasks : mpc[t].at = "appended"
    /\ Len(memories) > memory_size
    /\ stored >= 1

\* the entry of mem at position i qualifies for a recall of query_text:
\* its similarity is above the floor, or at the floor when that is included
Qualifies(mem, i, query_text, floor_included) ==
    LET sim == CalculateSimilarity(query_text, mem[i].query_text)
    IN  \/ sim.num * RecallFloorDen > RecallFloorNum * sim.den
        \/ floor_included /\ sim.num * RecallFloorDen = RecallFloorNum * sim.den

\* result is what a recall of query_text with limit k owes on the log mem:
\* qualifying entries only, each once and with its similarity, the most
\* similar ones, in order of non-increasing similarity, k of them or all
IsRecallOf(result, mem, query_text, k, floor_included) ==
    LET qualifying == {i \in 1..Len(mem) : Qualifies(mem, i, query_text, floor_included)}
    IN  /\ Len(result) = Min(k, Cardinality(qualifying))
        /\ \A n \in 1..Len(result) :
              \E i \in qualifying :
                  /\ result[n].memory = mem[i]
                  /\ result[n].similarity = CalculateSimilarity(query_text, mem[i].query_text)
        /\ \A n, m \in 1..Len(result) : n # m => result[n].memory # result[m].memory
        /\ \A n \in 1..(Len(result) - 1) : SimGeq(result[n].similarity, result[n + 1].similarity)
        /\ \A i \in qualifying :
              \/ \E n \in 1..Len(result) : result[n].memory = mem[i]
              \/ \A n \in 1..Len(result) :
                    SimGeq(result[n].similarity, CalculateSimilarity(query_text, mem[i].query_text))

\* a recall of query_text with limit k by some client
RecallStep(query_text, k) ==
    /\ query_text # <<>>
    /\ \E t \in Tasks : RetrieveMemory(t, query_text, k)

\* C22 as stated: a recall returns exactly the entries whose Jaccard
\* similarity to the query text is at least 0.3, an entry at exactly 0.3
\* included, in order of descending similarity, cut to the k most similar.
C22_RecallFloorIncluded ==
    [][\A args \in RecallArgs :
          RecallStep(args[1], args[2]) =>
              IsRecallOf(memOut'.value.memories, memories, args[1], args[2], TRUE)]_vars

\* C22 (amended): a recall returns exactly the entries whose Jaccard
\* similarity to the query text is greater than 0.3, an entry at exactly 0.3
\* left out, in order of descending similarity, cut to the k most similar.
C22_RecallAboveFloor ==
    [][\A args \in RecallArgs :
          RecallStep(args[1], args[2]) =>
              IsRecallOf(memOut'.value.memories, memories, args[1], args[2], FALSE)]_vars

\* a recall has returned nothing although the log holds an entry whose
\* similarity to the query text is exactly 0.3
C22_Witness ==
    /\ memOut.op = "retrieve"
    /\ memOut.raised = None
    /\ memOut.value.count = 0
    /\ \E i \in 1..Len(memories) :
          LET sim == CalculateSimilarity(FloorQuery, memories[i].query_text)
          IN  sim.num * RecallFloorDen = RecallFloorNum * sim.den
    /\ \A i \in 1..Len(memories) :
          ~AboveRecallFloor(CalculateSimilarity(FloorQuery, memories[i].query_text))
    /\ \E i \in 1..Len(memories) :
          AboveRecallFloor(CalculateSimilarity(Q1.query_text, memories[i].query_text))
    /\ \E i \in 1..Len(memories) :
          AboveRecallFloor(CalculateSimilarity(Q2.query_text, memories[i].query_text))

---------------------------------------------------------------------------
(* The search engine over a growing collection *)

\* the MemoryAgent is not used
MemoryIdle ==
    /\ memory_size = MaxMemorySize
    /\ MemoryEmpty

InitSearch == MemoryIdle /\ SearchIdle /\ RequestsIdle /\ LlmIdle /\ ParserIdle

\* batches of one or two new chunks
Batches(idx) ==
    LET fresh == ChunkIds \ SeqToSet(idx)
    IN  {<<a>> : a \in fresh} \cup {p \in fresh \X fresh : p[1] # p[2]}

\* (variant: each chunk is embedded and added on its own, and the embedding
\* fails at the last chunk of the batch)
InsertedOneByOne(idx, batch, fault) ==
    CASE fault = NoFault -> idx \o batch
      [] fault = "embedding" -> idx \o SubSeq(batch, 1, Len(batch) - 1)
      [] OTHER -> idx

\* the collection after add_chunks: encode(contents) runs for the whole batch
\* before the one collection.add
Inserted(idx, batch, fault) == IF fault = NoFault THEN idx \o batch ELSE idx

\* VectorStore.add_chunks: the embeddings are computed first; when that or
\* collection.add fails nothing is added and the error is raised
AddChunks(batch, fault) ==
    /\ Len(index) + Len(batch) <= MaxChunks
    /\ index' = Inserted(index, batch, fault)
    /\ searchOut' = [NoSearch EXCEPT !.op = "add", !.query = batch, !.fault = fault,
                                     !.failed = (fault # NoFault),
                                     !.raised = (fault # NoFault)]
    /\ UNCHANGED <<memVars, reqVars, llmVars, parserVars>>

Called(op, query, limit, min_similarity, fault, out) ==
    [op |-> op, query |-> query, limit |-> limit, min_similarity |-> min_similarity,
     fault |-> fault, failed |-> (fault # NoFault), raised |-> out.raised,
     candidates |-> out.candidates,
     results |-> out.results,
     graph |-> EmptyGraph]

MinSimilarities == {1, DefaultMinSimilarity, 50000}
Limits == 1..MaxLimit
SourceTypes == {"github", "jira", "confluence"}
RecentDays == {30}

Add ==
    \E batch \in Batches(index), fault \in Faults : AddChunks(batch, fault)

Search ==
    \E query \in SearchQueries, limit \in Limits, m \in MinSimilarities, fault \in Faults :
        /\ searchOut' = Called("search", query, limit, m, fault,
                               SemanticSearch(index, query, limit, {}, NoFilters, m, fault))
        /\ UNCHANGED <<index, memVars, reqVars, llmVars, parserVars>>

BySource ==
    \E query \in SearchQueries, st \in SourceTypes, limit \in Limits, fault \in Faults :
        /\ searchOut' = Called("by_source", query, limit, DefaultMinSimilarity, fault,
                               SearchBySource(index, query, st, limit, fault))
        /\ UNCHANGED <<index, memVars, reqVars, llmVars, parserVars>>

Recent ==
    \E query \in SearchQueries, days \in RecentDays, limit \in Limits, fault \in Faults :
        /\ searchOut' = Called("recent", query, limit, DefaultMinSimilarity, fault,
                               SearchRecent(index, query, days, limit, fault))
        /\ UNCHANGED <<index, memVars, reqVars, llmVars, parserVars>>

GetAll ==
    \E limit \in Limits, fault \in Faults :
        /\ searchOut' = Called("get_all", GetAllQuery, limit, 0, fault,
                               GetAllChunks(index, limit, fault))
        /\ UNCHANGED <<index, memVars, reqVars, llmVars, parserVars>>

\* VectorStore.search called on its own
VectorSearch ==
    \E query \in SearchQueries, limit \in Limits, fault \in Faults :
        LET out == VectorStoreSearch(index, query, limit, {}, NoFilters, fault)
        IN  /\ searchOut' = Called("vector_search", query, limit, 0, fault,
                                   [raised |-> out.raised, candidates |-> out.results,
                                    results |-> out.results])
            /\ UNCHANGED <<index, memVars, reqVars, llmVars, parserVars>>

NextSearch ==
    \/ Add
    \/ VectorSearch
    \/ Search
    \/ BySource
    \/ Recent
    \/ GetAll

SpecSearch == InitSearch /\ [][NextSearch]_vars

---------------------------------------------------------------------------
(* KnowledgeSynthesisAgent._build_knowledge_graph.  Node i of the code,    *)
(* "node_{i}" with i from 0, is node i + 1 here.                           *)

GraphLimit == 20
ContentShown == 100
EllipsisLen == 3

\* 0.5
EdgeThreshold == 50000

\* chunk.chunk.content[:100] + "..."
Shortened(content) == [name |-> content.name, len |-> Min(content.len, ContentShown) + EllipsisLen]

\* the node of chunk i
Node(chunks, i) ==
    [id |-> i,
     label |-> chunks[i].chunk.source_type,
     content |-> Shortened(chunks[i].chunk.content),
     similarity |-> chunks[i].similarity_score]

\* (variant: one of the two similarities above 0.5 is enough)
EitherAboveThreshold(a, b) ==
    a.similarity_score > EdgeThreshold \/ b.similarity_score > EdgeThreshold

\* chunks[i].similarity_score > 0.5 and chunks[j].similarity_score > 0.5
BothAboveThreshold(a, b) ==
    a.similarity_score > EdgeThreshold /\ b.similarity_score > EdgeThreshold

\* (a + b) / 2, as a fraction of Scale units
AverageOf(a, b) == [num |-> a + b, den |-> 2]

\* the loops `for i in range(len(chunks)): for j in range(i + 1, len(chunks))`,
\* from the pair (i, j) on
RECURSIVE EdgesFrom(_, _, _)
EdgesFrom(chunks, i, j) ==
    IF i > Len(chunks) THEN <<>>
    ELSE IF j > Len(chunks) THEN EdgesFrom(chunks, i + 1, i + 2)
    ELSE (IF BothAboveThreshold(chunks[i], chunks[j])
          THEN << [from |-> i, to |-> j,
                   weight |-> AverageOf(chunks[i].similarity_score, chunks[j].similarity_score)] >>
          ELSE <<>>)
         \o EdgesFrom(chunks, i, j + 1)

\* the graph built from the chunks
GraphOf(chunks) ==
    [nodes |-> [i \in 1..Len(chunks) |-> Node(chunks, i)],
     edges |-> EdgesFrom(chunks, 1, 2)]

GraphQueries == {GraphQuery, <<"what", "is", "jest">>, <<>>}

\* _build_knowledge_graph: ValueError without a query; otherwise the search
\* with limit 20 (which returns [] when the vector store fails) and the graph
BuildKnowledgeGraph ==
    \E query \in GraphQueries, fault \in Faults :
        /\ IF query = <<>>
           THEN searchOut' = [NoSearch EXCEPT !.op = "build_graph", !.raised = TRUE]
           ELSE LET out == SemanticSearch(index, query, GraphLimit, {}, NoFilters,
                                          DefaultMinSimilarity, fault)
                IN  searchOut' = [Called("build_graph", query, GraphLimit, DefaultMinSimilarity,
                                         fault, out) EXCEPT !.graph = GraphOf(out.results)]
        /\ UNCHANGED <<index, memVars, reqVars, llmVars, parserVars>>

NextGraph ==
    \/ Add
    \/ BuildKnowledgeGraph

SpecGraph == InitSearch /\ [][NextGraph]_vars

\* the graph that build_graph returned, and the chunks it was built from
GraphBuilt == searchOut.op = "build_graph" /\ ~searchOut.raised

\* the edges of the returned graph that join nodes i and j
EdgesBetween(i, j) ==
    {k \in 1..Len(searchOut.graph.edges) :
        {searchOut.graph.edges[k].from, searchOut.graph.edges[k].to} = {i, j}}

\* C25: the graph has exactly one node per retrieved chunk; it has no
\* self-loop and at most one edge per unordered pair; chunks i # j are joined
\* if and only if both similarities exceed 0.5; the weight of the edge is the
\* average of the two similarities.
C25_GraphOfChunks ==
    GraphBuilt =>
        LET chunks == searchOut.results
            graph == searchOut.graph
            n == Len(chunks)
        IN  /\ Len(graph.nodes) = n
            /\ \A i \in 1..n :
                  /\ graph.nodes[i].id = i
                  /\ graph.nodes[i].similarity = chunks[i].similarity_score
                  /\ graph.nodes[i].label = chunks[i].chunk.source_type
            /\ \A k \in 1..Len(graph.edges) :
                  /\ graph.edges[k].from \in 1..n
                  /\ graph.edges[k].to \in 1..n
                  /\ graph.edges[k].from # graph.edges[k].to
                  /\ graph.edges[k].weight.num =
                        chunks[graph.edges[k].from].similarity_score
                          + chunks[graph.edges[k].to].similarity_score
                  /\ graph.edges[k].weight.den = 2
            /\ \A i, j \in 1..n :
                  i # j =>
                    /\ Cardinality(EdgesBetween(i, j)) <= 1
                    /\ (EdgesBetween(i, j) # {}) <=>
                          (/\ 2 * chunks[i].similarity_score > Scale
                           /\ 2 * chunks[j].similarity_score > Scale)

\* a graph of three chunks: two above 0.5 that are joined, and one at exactly
\* 0.5 that is joined to neither
C25_Witness ==
    /\ GraphBuilt
    /\ Len(searchOut.graph.nodes) = 3
    /\ Len(searchOut.graph.edges) = 1
    /\ \E i \in 1..3 : 2 * searchOut.results[i].similarity_score = Scale

---------------------------------------------------------------------------
(* Properties of the search engine *)

IsRetrieve == searchOut.op \in {"search", "by_source", "recent"}

\* the best similarity among the candidates the vector store returned
BestCandidate ==
    CHOOSE b \in {searchOut.candidates[i].similarity_score : i \in 1..Len(searchOut.candidates)} :
        \A i \in 1..Len(searchOut.candidates) : searchOut.candidates[i].similarity_score <= b

C5_LimitedAndOrdered ==
    IsRetrieve =>
        /\ Len(searchOut.results) <= searchOut.limit
        /\ \A i \in 1..(Len(searchOut.results) - 1) :
              searchOut.results[i].similarity_score >= searchOut.results[i + 1].similarity_score

C5_Witness ==
    /\ IsRetrieve
    /\ Len(searchOut.candidates) > searchOut.limit
    /\ Len(searchOut.results) = searchOut.limit
    /\ Len(searchOut.results) >= 2
    /\ searchOut.results[1].similarity_score > searchOut.results[2].similarity_score

\* C6: search never raises; with an empty collection, or when the embedding
\* or the collection fails, it returns the empty list.
C6_SearchNeverRaises ==
    IsRetrieve =>
        /\ ~searchOut.raised
        /\ (searchOut.failed \/ index = <<>>) => searchOut.results = <<>>

C6_Witness ==
    /\ searchOut.op = "search"
    /\ searchOut.failed
    /\ index # <<>>
    /\ ~searchOut.raised
    /\ searchOut.results = <<>>

---------------------------------------------------------------------------
(* The /api/query handler: AgenticMentor._setup_routes.query and           *)
(* QAAgent.process.  Each request coroutine goes through the handler once. *)
(* The handler really suspends only in request.json() and in the LLM call; *)
(* the model lets the coroutines interleave between any two stages, which  *)
(* includes every interleaving the event loop can produce.                 *)

\* substrings that make QAAgent.process fetch all chunks instead of searching
GeneralWords == {"project", "repository", "list", "show", "what", "tell"}

\* (variant: no query is treated as general)
NeverGeneral(query_text) == FALSE

IsGeneralQuery(query_text) == SeqToSet(query_text) \cap GeneralWords # {}

GetAllLimit == 20
QaSearchLimit == 10
MaxSources == 3

\* (variant: the retrieval is skipped when the memory holds a rated answer to
\* the same text)
QaRetrieveUnlessRemembered(idx, query_text, fault) ==
    IF \E i \in 1..Len(memories) :
          /\ memories[i].query_text = query_text
          /\ memories[i].satisfaction_score # NoSatisfaction
    THEN <<>>
    ELSE IF IsGeneralQuery(query_text)
    THEN GetAllChunks(idx, GetAllLimit, fault).results
    ELSE SemanticSearch(idx, query_text, QaSearchLimit, {}, NoFilters, DefaultMinSimilarity, fault).results

\* _prepare_context: relevance, type and content of every search result
PrepareContext(search_results) ==
    [i \in 1..Len(search_results) |->
        [relevance |-> search_results[i].similarity_score,
         source_type |-> search_results[i].chunk.source_type,
         content |-> search_results[i].chunk.content]]

\* the messages of _generate_enhanced_response: a fixed system prompt, and a
\* user prompt made of the query text and the context
Messages(query_text, search_results) ==
    [query |-> query_text, context |-> PrepareContext(search_results)]

\* QAAgent.process, lines 55-60: the retrieval
QaRetrieve(idx, query_text, fault) ==
    IF IsGeneralQuery(query_text)
    THEN GetAllChunks(idx, GetAllLimit, fault).results
    ELSE SemanticSearch(idx, query_text, QaSearchLimit, {}, NoFilters, DefaultMinSimilarity, fault).results

\* what LLMClient.call_llm hands back: a completion, an empty completion, the
\* text "Error: ..." it makes of a provider exception, or Gemini's fixed text
\* when the rate limit outlasts the retries
LLMOutcomes == {"answer", "empty", "error", "busy"}

AnswerText == [name |-> "answer", len |-> 400, code |-> FALSE, steps |-> TRUE]
ApologyText == [name |-> "apology", len |-> 97, code |-> FALSE, steps |-> FALSE]
ErrorText == [name |-> "error", len |-> 60, code |-> FALSE, steps |-> FALSE]
BusyText == [name |-> "busy", len |-> 75, code |-> FALSE, steps |-> FALSE]

\* _generate_enhanced_response, lines 212-235: the text of the answer
ResponseText(outcome) ==
    CASE outcome = "empty" -> ApologyText
      [] outcome = "error" -> ErrorText
      [] outcome = "busy" -> BusyText
      [] OTHER -> AnswerText

MaxConfidence == 90
BaseConfidence == 30
ConfidencePerSource == 10
CharsPerPoint == 10

\* _analyze_response: min(0.9, 0.3 + len(text) / 1000 + len(results) * 0.1), in hundredths
Confidence(text, search_results) ==
    Min(MaxConfidence,
        BaseConfidence + (text.len \div CharsPerPoint) + Len(search_results) * ConfidencePerSource)

\* _analyze_response: the list the follow-up suggestion is taken from
FollowUpList(query_text) ==
    LET words == SeqToSet(query_text)
    IN  IF words \cap {"project", "repository", "code"} # {} THEN "project"
        ELSE IF words \cap {"process", "workflow", "steps"} # {} THEN "process"
        ELSE IF words \cap {"technology", "stack", "framework"} # {} THEN "technology"
        ELSE "general"

\* each follow_up_suggestions list has five entries
FollowUpChoices == 5

\* hash(query_text) % len(follow_up_suggestions): string hashes differ from
\* one process to the next, so any index of the list
FollowUpPicks == 0..(FollowUpChoices - 1)

\* (variant: _analyze_response asks the LLM for its analysis)
AnalysisByLlm == TRUE

\* whether _analyze_response calls the LLM: it computes the confidence, the
\* reasoning and the follow-up itself
AnalysisCallsLlm == FALSE

\* the dict _generate_enhanced_response returns
QaResult(query_text, search_results, outcome, pick) ==
    LET text == ResponseText(outcome)
    IN  [text |-> text,
         confidence |-> Confidence(text, search_results),
         reasoning |-> Len(search_results),
         follow_up |-> [list |-> FollowUpList(query_text), pick |-> pick],
         sources |-> FirstN(search_results, MaxSources)]

\* the "response" main.py passes to the memory agent: a dict
ResponseDict(result) ==
    [shape |-> "dict", response_text |-> result.text,
     confidence_score |-> result.confidence, sources |-> Len(result.sources)]

\* _store_memory as one step: it has no suspension point
StoreMemory(mem, size, query, response, user_id, satisfaction_score, c) ==
    IF QueryMissing(query) \/ ResponseMissing(response)
    THEN [raised |-> "ValueError", memories |-> mem, memory_id |-> 0]
    ELSE IF ~HasAttributes(response)
    THEN [raised |-> "AttributeError", memories |-> mem, memory_id |-> 0]
    ELSE LET memory == StoreEntry(query, response, user_id, satisfaction_score, c)
         IN  [raised |-> None,
              memories |-> EvictOldest(AppendMemory(mem, memory), size),
              memory_id |-> memory.id]

NoHttpResponse ==
    [status |-> 0, success |-> FALSE, query_id |-> None, response |-> ResponseText("empty"),
     confidence |-> 0, sources |-> <<>>, suggested_follow_up |-> [list |-> None, pick |-> 0]]

\* raise HTTPException(status_code=500, detail=str(e))
Http500 == [NoHttpResponse EXCEPT !.status = 500]

\* the dict the handler returns
HttpSuccess(query, result) ==
    [status |-> 200, success |-> TRUE, query_id |-> query.id, response |-> result.text,
     confidence |-> result.confidence, sources |-> result.sources,
     suggested_follow_up |-> result.follow_up]

\* (variant: synthesis is started without waiting for the retrieval)
SynthesisFirst == "synthesize"

\* the stage after the Query object is built: qa_agent.process begins with the retrieval
StageAfterReceive == "retrieve"

\* (variant: the exception of the store reaches the outer handler)
PropagateStoreFailure(raised) == IF raised # None THEN "failed" ELSE "respond"

\* except Exception: logger.warning(...): the handler goes on to its return
AfterStore(raised) == "respond"

\* lines 89-106: the body is read; an empty query raises HTTPException(400),
\* which the handler's own `except Exception` turns into a 500
Receive(r, query_text) ==
    /\ rpc[r] = "idle"
    /\ IF query_text = <<>>
       THEN /\ rpc' = [rpc EXCEPT ![r] = "failed"]
            /\ req' = [req EXCEPT ![r].response = Http500]
       ELSE /\ rpc' = [rpc EXCEPT ![r] = StageAfterReceive]
            /\ req' = [req EXCEPT ![r].query =
                          [id |-> r, user_id |-> "anonymous", query_text |-> query_text]]
    /\ UNCHANGED <<memVars, searchVars, llmVars, parserVars>>

\* QAAgent.process, lines 55-60
Retrieve(r, fault) ==
    /\ rpc[r] = "retrieve"
    /\ rpc' = [rpc EXCEPT ![r] = "synthesize"]
    /\ req' = [req EXCEPT
                 ![r].search_results = QaRetrieve(index, req[r].query.query_text, fault),
                 ![r].retrieval_failed = (fault # NoFault),
                 ![r].memory_seen = MemorySeen(memories),
                 ![r].log = @ \o <<"retrieval_started", "retrieval_done">>]
    /\ UNCHANGED <<memVars, searchVars, llmVars, parserVars>>

\* _generate_enhanced_response up to `await self._call_llm(...)`
CallLLM(r) ==
    /\ rpc[r] = "synthesize"
    /\ rpc' = [rpc EXCEPT ![r] = "llm"]
    /\ req' = [req EXCEPT ![r].llm_calls = @ + 1,
                           ![r].messages = Messages(req[r].query.query_text, req[r].search_results),
                           ![r].log = Append(@, "synthesis_started")]
    /\ UNCHANGED <<memVars, searchVars, llmVars, parserVars>>

\* the LLM call returns; the rest of _generate_enhanced_response
LLMReturns(r, outcome, pick) ==
    /\ rpc[r] = "llm"
    /\ rpc' = [rpc EXCEPT ![r] = "store"]
    /\ req' = [req EXCEPT
                 ![r].llm_outcome = outcome,
                 ![r].llm_calls = IF AnalysisCallsLlm THEN @ + 1 ELSE @,
                 ![r].result = QaResult(req[r].query.query_text, req[r].search_results, outcome, pick),
                 ![r].log = Append(@, "synthesis_done")]
    /\ UNCHANGED <<memVars, searchVars, llmVars, parserVars>>

\* lines 111-125: the store, inside its own try/except
StoreInMemory(r) ==
    /\ rpc[r] = "store"
    /\ LET out == StoreMemory(memories, memory_size, req[r].query, ResponseDict(req[r].result),
                              "anonymous", NoSatisfaction, clock)
           next == AfterStore(out.raised)
       IN  /\ memories' = out.memories
           /\ clock' = IF out.raised = None THEN clock + 1 ELSE clock
           /\ evicted' = evicted \cup (Ids(memories) \ Ids(out.memories))
           /\ stored' = IF out.raised = None THEN stored + 1 ELSE stored
           /\ memOut' = IF out.raised = None
                        THEN Returned(r, "store", [memory_id |-> out.memory_id, stored |-> TRUE])
                        ELSE Raised(r, "store", out.raised)
           /\ rpc' = [rpc EXCEPT ![r] = next]
           /\ req' = [req EXCEPT
                        ![r].store_raised = (out.raised # None),
                        ![r].response = IF next = "failed" THEN Http500 ELSE @,
                        ![r].log = @ \o <<"store_started", "store_done">>]
    /\ UNCHANGED <<memory_size, mpc, learned, searchVars, llmVars, parserVars>>

\* lines 127-134
Respond(r) ==
    /\ rpc[r] = "respond"
    /\ rpc' = [rpc EXCEPT ![r] = "done"]
    /\ req' = [req EXCEPT ![r].response = HttpSuccess(req[r].query, req[r].result)]
    /\ UNCHANGED <<memVars, searchVars, llmVars, parserVars>>

\* what request bodies carry as "query"
RequestTexts == {q.query_text : q \in QueryPool} \cup {<<>>}

\* the collection the server starts with
StartIndexes == { <<>>, <<"c2", "c1", "c3", "c4">> }

InitPipeline ==
    /\ memory_size \in 1..MaxMemorySize
    /\ MemoryEmpty
    /\ index \in StartIndexes
    /\ searchOut = NoSearch
    /\ RequestsIdle
    /\ LlmIdle
    /\ ParserIdle

NextPipeline ==
    \E r \in Tasks :
        \/ \E query_text \in RequestTexts : Receive(r, query_text)
        \/ \E fault \in Faults : Retrieve(r, fault)
        \/ CallLLM(r)
        \/ \E outcome \in LLMOutcomes, pick \in FollowUpPicks : LLMReturns(r, outcome, pick)
        \/ StoreInMemory(r)
        \/ Respond(r)

SpecPipeline == InitPipeline /\ [][NextPipeline]_vars

\* the server answers queries over a filled collection while clients of the
\* MemoryAgent teach it interactions
InitAnswering ==
    /\ memory_size = MaxMemorySize
    /\ MemoryEmpty
    /\ index = <<"c2", "c1", "c3", "c4">>
    /\ searchOut = NoSearch
    /\ RequestsIdle
    /\ LlmIdle
    /\ ParserIdle

\* request texts: one that is searched for and one that is general
AnsweringTexts == { <<"how", "to", "deploy", "api">>, <<"what", "is", "jest">> }

\* (query, response, satisfaction_score) of the interactions that are taught
TeachArgs == { <<Q1, LongResponse, 5>>, <<Q2, ShortResponse, 2>> }

Teach(t) ==
    /\ \E args \in TeachArgs : LearnFromInteraction(t, args[1], args[2], args[3])
    /\ UNCHANGED <<searchVars, reqVars, llmVars, parserVars>>

NextAnswering ==
    \E r \in Tasks :
        \/ \E query_text \in AnsweringTexts : Receive(r, query_text)
        \/ \E fault \in Faults : Retrieve(r, fault)
        \/ CallLLM(r)
        \/ \E outcome \in {"answer", "error"} : LLMReturns(r, outcome, 0)
        \/ StoreInMemory(r)
        \/ Respond(r)
        \/ Teach(r)

SpecAnswering == InitAnswering /\ [][NextAnswering]_vars

---------------------------------------------------------------------------
(* Properties of the /api/query handler *)

\* position of the first occurrence of event in log, 0 when it is absent
FirstAt(log, event) ==
    IF \E i \in 1..Len(log) : log[i] = event
    THEN CHOOSE i \in 1..Len(log) : log[i] = event /\ \A j \in 1..(i - 1) : log[j] # event
    ELSE 0

\* before comes before after in the log whenever after is in it
Precedes(log, before, after) ==
    FirstAt(log, after) # 0 =>
        (FirstAt(log, before) # 0 /\ FirstAt(log, before) < FirstAt(log, after))

\* C7: for every request, whatever the other requests are doing, the
\* synthesis starts only after that request's retrieval has completed and
\* the memory store starts only after that request's synthesis has completed.
C7_StagesInOrder ==
    \A r \in Tasks :
        /\ Precedes(req[r].log, "retrieval_done", "synthesis_started")
        /\ Precedes(req[r].log, "synthesis_done", "store_started")
        /\ Precedes(req[r].log, "retrieval_started", "retrieval_done")
        /\ Precedes(req[r].log, "synthesis_started", "synthesis_done")

\* one request has gone through all three stages while another one, received
\* before the first finished, is waiting for its LLM call
C7_Witness ==
    \E r, o \in Tasks :
        /\ r # o
        /\ rpc[r] = "done"
        /\ FirstAt(req[r].log, "store_done") # 0
        /\ rpc[o] = "llm"
        /\ FirstAt(req[o].log, "synthesis_started") # 0

\* C8: when an answered request completes, and no store has evicted anything,
\* the memory log holds an entry with the query's id whose response is the
\* answer text returned to the caller.
C8_AnswerIsStored ==
    \A r \in Tasks :
        (rpc[r] = "done" /\ req[r].response.success /\ evicted = {}) =>
            \E i \in 1..Len(memories) :
                /\ memories[i].query_id = req[r].query.id
                /\ memories[i].response = req[r].response.response

\* C9: a request whose memory store raised is never failed because of it, and
\* when it completes the caller has the answer of the QA agent: its text,
\* confidence, sources and follow-up, with success and status 200.
C9_StoreFailureSwallowed ==
    \A r \in Tasks :
        req[r].store_raised =>
            /\ rpc[r] # "failed"
            /\ rpc[r] = "done" =>
                  /\ req[r].response.success
                  /\ req[r].response.status = 200
                  /\ req[r].response.query_id = req[r].query.id
                  /\ req[r].response.response = req[r].result.text
                  /\ req[r].response.confidence = req[r].result.confidence
                  /\ req[r].response.sources = req[r].result.sources
                  /\ req[r].response.suggested_follow_up = req[r].result.follow_up

\* a request whose store raised has returned an answer with sources
C9_Witness ==
    \E r \in Tasks :
        /\ rpc[r] = "done"
        /\ req[r].store_raised
        /\ memOut.op = "store" /\ memOut.raised = "AttributeError"
        /\ req[r].response.success
        /\ req[r].response.response = AnswerText
        /\ Len(req[r].response.sources) >= 1

\* the provider failed for this request: an error, or the rate limit
\* outlasting the retries
ProviderFailed(r) == req[r].llm_outcome \in {"error", "busy"}

\* the text carries the message of an exception: f"Error: {str(e)}"
EmbedsException(text) == text.name = "error"

\* the fixed messages the code has for failures
FixedApologies == {ApologyText, BusyText}

\* C13: the text a completed request returns never embeds the message of an
\* exception, and when the provider failed it is one of the fixed apologies.
C13_NoExceptionPayload ==
    \A r \in Tasks :
        rpc[r] = "done" =>
            /\ ~EmbedsException(req[r].response.response)
            /\ ProviderFailed(r) => req[r].response.response \in FixedApologies

\* the default confidence of a parse fallback, 0.5, in hundredths
FallbackConfidence == 50

\* C14: when the provider failed for a request, the confidence returned to
\* the user is no higher than the parse-fallback default.
C14_LowConfidenceOnFailure ==
    \A r \in Tasks :
        (rpc[r] = "done" /\ ProviderFailed(r)) =>
            req[r].response.confidence <= FallbackConfidence

\* the synthesis of request r is over
Synthesized(r) == rpc[r] \in {"store", "respond", "done"}

---------------------------------------------------------------------------
(* Properties of the vector store *)

\* C16: an add_chunks whose embedding call fails leaves the collection as it
\* was, whatever the size of the batch, and raises to its caller.
C16_AddIsAtomic ==
    [][(searchOut'.op = "add" /\ searchOut'.fault = "embedding") =>
          (index' = index /\ searchOut'.raised)]_vars

\* a batch of two chunks has failed on its embeddings, on a collection that
\* already held chunks
C16_Witness ==
    /\ searchOut.op = "add"
    /\ searchOut.fault = "embedding"
    /\ Len(searchOut.query) = 2
    /\ searchOut.raised
    /\ index # <<>>
    /\ SeqToSet(searchOut.query) \cap SeqToSet(index) = {}

\* C17: VectorStore.search returns an empty list, and does not raise, when
\* the embedding of the query fails.
C17_SearchEmptyOnEmbeddingFailure ==
    (searchOut.op = "vector_search" /\ searchOut.fault = "embedding") =>
        (~searchOut.raised /\ searchOut.results = <<>>)

\* the retrieval of request r is over
Retrieved(r) == rpc[r] \notin {"idle", "failed", "retrieve"}

\* the messages of request r have been sent to the LLM
Prompted(r) == Retrieved(r) /\ rpc[r] # "synthesize"

\* C23: two requests with the same query text, served from the same
\* collection with the vector store behaving alike, are given the same
\* chunks and send the same messages to the LLM, whatever the memory held
\* (entries, satisfaction scores, learned patterns) at either retrieval.
C23_NoFeedback ==
    \A r, o \in Tasks :
        (/\ Retrieved(r) /\ Retrieved(o)
         /\ req[r].query.query_text = req[o].query.query_text
         /\ req[r].retrieval_failed = req[o].retrieval_failed) =>
            /\ req[r].search_results = req[o].search_results
            /\ (Prompted(r) /\ Prompted(o)) => req[r].messages = req[o].messages

\* two requests with the same text have sent their messages; one retrieved
\* over an empty memory, the other over a memory with a rated entry and
\* learned patterns for that very text
C23_Witness ==
    \E r, o \in Tasks :
        /\ Prompted(r) /\ Prompted(o)
        /\ req[r].query.query_text = req[o].query.query_text
        /\ ~req[r].retrieval_failed /\ ~req[o].retrieval_failed
        /\ req[r].search_results # <<>>
        /\ req[r].memory_seen.entries = 0
        /\ req[o].memory_seen.rated /\ req[o].memory_seen.patterns
        /\ \E i \in 1..Len(memories) :
              /\ memories[i].query_text = req[o].query.query_text
              /\ memories[i].learned_patterns # <<>>

\* Retriever.retrieve for the request's own text, as QAAgent.process calls it
OwnTextRetrieval(idx, query_text, fault) ==
    SemanticSearch(idx, query_text, QaSearchLimit, {}, NoFilters, DefaultMinSimilarity, fault).results

\* the query has one of the words of line 55
HasGeneralWord(query_text) == \E i \in 1..Len(query_text) : query_text[i] \in GeneralWords

ProducesSearchResults == searchOut.op \in {"search", "by_source", "recent", "get_all"}

\* C27: every SearchResult produced, by the retrieval and by the retrieval
\* used for general queries, has a similarity_score within [0, 1], whatever
\* distance >= 0 the collection reports.
C27_SimilarityInUnitInterval ==
    ProducesSearchResults =>
        \A i \in 1..Len(searchOut.results) :
            /\ searchOut.results[i].similarity_score >= 0
            /\ searchOut.results[i].similarity_score <= Scale

---------------------------------------------------------------------------
(* LLMClient: one call of call_llm, provider invocation by invocation *)

\* number of call_llm calls one client serves in the model
MaxLlmCalls == 2

\* what __init__ configures: Gemini, Grok, OpenAI, or no key at all
Providers == {"gemini", "grok", "openai", "demo"}

\* what one invocation of the provider's API does: a completion, an empty
\* completion, an exception whose text has "429" and "quota", any other exception
ProviderOutcomes == {"text", "empty", "rate_limit", "error"}

\* max_retries = 3
MaxRetries == 3

\* retry_delay = 2
InitialRetryDelay == 2

\* retry_delay *= 2
BackoffFactor == 2

\* what call_llm hands back to its caller; raised is whether it is an exception
LlmText(kind) == [kind |-> kind, raised |-> FALSE]

\* call_llm, line 65-67: an exception of the provider call becomes the text "Error: ..."
CallLlmExcept == LlmText("error_text")

\* _call_openai and _call_grok: one invocation, exceptions are re-raised
\* to call_llm
OpenAIStep(c, outcome) ==
    LET called == [c EXCEPT !.invocations = @ + 1]
    IN  CASE outcome = "text" ->
                [called EXCEPT !.at = "returned", !.result = LlmText("text")]
          [] outcome = "empty" ->
                [called EXCEPT !.at = "returned", !.result = LlmText("empty")]
          [] OTHER ->
                [called EXCEPT !.at = "returned", !.failures = Append(@, outcome),
                               !.result = CallLlmExcept]

\* (variant: the loop allows one more attempt than max_retries)
GeminiStepOneMore(c, outcome) ==
    LET called == [c EXCEPT !.invocations = @ + 1]
        failed == [called EXCEPT !.failures = Append(@, outcome)]
    IN  CASE outcome = "text" ->
                [called EXCEPT !.at = "returned", !.result = LlmText("text")]
          [] outcome = "empty" ->
                [called EXCEPT !.at = "returned", !.result = LlmText("gemini_apology")]
          [] OTHER ->
                IF c.attempt < MaxRetries
                THEN [failed EXCEPT !.at = "sleeping", !.sleeps = Append(@, c.retry_delay)]
                ELSE [failed EXCEPT !.at = "returned", !.result = CallLlmExcept]

\* _call_gemini: one iteration of `for attempt in range(max_retries)`
GeminiStep(c, outcome) ==
    LET called == [c EXCEPT !.invocations = @ + 1]
        failed == [called EXCEPT !.failures = Append(@, outcome)]
    IN  CASE outcome = "text" ->
                [called EXCEPT !.at = "returned", !.result = LlmText("text")]
          [] outcome = "empty" ->
                [called EXCEPT !.at = "returned", !.result = LlmText("gemini_apology")]
          [] outcome = "rate_limit" ->
                IF c.attempt < MaxRetries - 1
                THEN [failed EXCEPT !.at = "sleeping",
                                    !.sleeps = Append(@, c.retry_delay),
                                    !.retry_delay = @ * BackoffFactor]
                ELSE [failed EXCEPT !.at = "returned", !.result = LlmText("busy")]
          [] OTHER ->
                IF c.attempt < MaxRetries - 1
                THEN [failed EXCEPT !.at = "sleeping", !.sleeps = Append(@, c.retry_delay)]
                ELSE [failed EXCEPT !.at = "returned", !.result = CallLlmExcept]

\* call_llm is entered: the dispatch of lines 56-63
LlmCall(json_prompt) ==
    /\ llm.at \in {"idle", "returned"}
    /\ llm.calls < MaxLlmCalls
    /\ llm' = IF llm.provider = "demo"
              THEN [NoLlmCall EXCEPT !.provider = llm.provider, !.calls = llm.calls + 1,
                                     !.at = "returned", !.result = LlmText("demo")]
              ELSE [NoLlmCall EXCEPT !.provider = llm.provider, !.calls = llm.calls + 1,
                                     !.at = "calling",
                                     !.retry_delay = IF llm.provider = "gemini"
                                                     THEN InitialRetryDelay ELSE 0,
                                     !.prompt = CASE llm.provider # "gemini" -> "messages"
                                                  [] json_prompt -> "json_only"
                                                  [] OTHER -> "detailed"]
    /\ UNCHANGED <<memVars, searchVars, reqVars, parserVars>>

\* the provider's API answers or raises
ProviderResponds(outcome) ==
    /\ llm.at = "calling"
    /\ llm' = IF llm.provider = "gemini"
              THEN GeminiStep(llm, outcome)
              ELSE OpenAIStep(llm, outcome)
    /\ UNCHANGED <<memVars, searchVars, reqVars, parserVars>>

\* asyncio.sleep(retry_delay) is over: `continue`
Wake ==
    /\ llm.at = "sleeping"
    /\ llm' = [llm EXCEPT !.at = "calling", !.attempt = @ + 1]
    /\ UNCHANGED <<memVars, searchVars, reqVars, parserVars>>

\* LLMClient() just constructed with one of the providers
InitLLM ==
    /\ MemoryIdle
    /\ index = <<>> /\ searchOut = NoSearch
    /\ rpc = [r \in Tasks |-> "idle"] /\ req = [r \in Tasks |-> NoRequest]
    /\ llm \in {[NoLlmCall EXCEPT !.provider = p] : p \in Providers}
    /\ ParserIdle

NextLLM ==
    \/ \E json_prompt \in BOOLEAN : LlmCall(json_prompt)
    \/ \E outcome \in ProviderOutcomes : ProviderResponds(outcome)
    \/ Wake

SpecLLM == InitLLM /\ [][NextLLM]_vars

\* the provider's API call comes back, with a completion or an exception, and
\* asyncio.sleep ends
FairLLM ==
    /\ WF_vars(\E outcome \in ProviderOutcomes : ProviderResponds(outcome))
    /\ WF_vars(Wake)

SpecLLMFair == SpecLLM /\ FairLLM

---------------------------------------------------------------------------
(* Properties of the LLM client *)

\* the call in progress was ended by a failure of the given kind
EndedOn(kind) ==
    /\ llm.at = "returned"
    /\ llm.failures # <<>>
    /\ llm.failures[Len(llm.failures)] = kind
    /\ llm.result.kind \in {"busy", "error_text"}

\* C11: with every configured provider, a call that a rate-limit failure ends
\* has retried MaxRetries times before giving up, and each wait between two
\* rate-limit failures is double the wait before it.
C11_RateLimitRetried ==
    /\ EndedOn("rate_limit") => llm.invocations - 1 = MaxRetries
    /\ \A i \in 1..(Len(llm.sleeps) - 1) :
          (llm.failures[i] = "rate_limit" /\ llm.failures[i + 1] = "rate_limit") =>
              llm.sleeps[i + 1] = BackoffFactor * llm.sleeps[i]

\* C12: a call that a failure other than a rate limit ends, after a bounded
\* number of retries, raises to its caller instead of returning a text.
C12_ErrorPropagates ==
    /\ llm.invocations <= MaxRetries + 1
    /\ EndedOn("error") => llm.result.raised

\* C29: one call of the LLM client invokes the provider at most MaxRetries
\* times, whatever failures the provider produces, and every call that was
\* entered comes back to its caller.
C29_CallTerminates ==
    /\ [](llm.invocations <= MaxRetries)
    /\ (llm.at \in {"calling", "sleeping"}) ~> (llm.at = "returned")

\* a call has come back after the provider failed MaxRetries times, with a
\* rate limit and with another error among the failures
C29_Witness ==
    /\ llm.at = "returned"
    /\ llm.invocations = MaxRetries
    /\ Len(llm.failures) = MaxRetries
    /\ \E i, j \in 1..Len(llm.failures) :
          llm.failures[i] = "rate_limit" /\ llm.failures[j] = "error"

---------------------------------------------------------------------------
(* utils/json_parser.py.  A text is a sequence of tokens: punctuation      *)
(* characters, one blank, words (runs of \w) and numbers.                  *)

WS == " "
DQ == "dquote"
SQ == "squote"
BT == "backtick"
BS == "backslash"

Punctuation == {"{", "}", "[", "]", DQ, SQ, ":", ",", BT, BS, WS, "?", "!"}
Numbers == {"0.8", "0.5"}

\* \w+
IsWord(tok) == tok \notin Punctuation \cup Numbers

\* str.strip()
RECURSIVE LStrip(_)
LStrip(t) == IF t # <<>> /\ Head(t) = WS THEN LStrip(Tail(t)) ELSE t

RECURSIVE RStrip(_)
RStrip(t) == IF t # <<>> /\ t[Len(t)] = WS THEN RStrip(SubSeq(t, 1, Len(t) - 1)) ELSE t

Strip(t) == RStrip(LStrip(t))

\* \s* at position i: the number of blanks there
RECURSIVE WsRun(_, _)
WsRun(t, i) == IF i <= Len(t) /\ t[i] = WS THEN 1 + WsRun(t, i + 1) ELSE 0

SkipWs(t, i) == i + WsRun(t, i)

\* the length of the match of lits\s* at position i, 0 when there is none
MatchLen(t, i, lits) ==
    IF i + Len(lits) - 1 <= Len(t) /\ SubSeq(t, i, i + Len(lits) - 1) = lits
    THEN Len(lits) + WsRun(t, i + Len(lits))
    ELSE 0

\* the least element of a non-empty set of positions
First(positions) == CHOOSE i \in positions : \A j \in positions : i <= j

\* re.sub(r'lits\s*', '', t): the matches are taken from left to right
RECURSIVE RemoveFrom(_, _, _)
RemoveFrom(t, i, lits) ==
    LET matches == {j \in i..Len(t) : MatchLen(t, j, lits) > 0}
    IN  IF matches = {} THEN SubSeq(t, i, Len(t))
        ELSE SubSeq(t, i, First(matches) - 1)
             \o RemoveFrom(t, First(matches) + MatchLen(t, First(matches), lits), lits)

ReSubAll(t, lits) == RemoveFrom(t, 1, lits)

\* re.sub(r'lits\s*$', '', t)
ReSubAtEnd(t, lits) ==
    LET ends == {i \in 1..Len(t) : MatchLen(t, i, lits) > 0 /\ i + MatchLen(t, i, lits) - 1 = Len(t)}
    IN  IF ends = {} THEN t
        ELSE SubSeq(t, 1, First(ends) - 1)

\* re.sub(r'^lits\s*', '', t)
ReSubAtStart(t, lits) ==
    IF MatchLen(t, 1, lits) > 0 THEN SubSeq(t, 1 + MatchLen(t, 1, lits), Len(t)) ELSE t

Fence == <<BT, BT, BT>>
FenceJson == <<BT, BT, BT, "json">>

\* parse_llm_json, lines 27-39: the fences and every backtick are removed
CleanText(response_text) ==
    LET a == ReSubAll(Strip(response_text), FenceJson)
        b == ReSubAtEnd(a, Fence)
        c == ReSubAtStart(b, Fence)
        e == ReSubAll(c, Fence)
        f == ReSubAll(e, <<BT>>)
    IN  Strip(f)

\* json.loads on the texts of the model: an object of string keys with string
\* or number values, a string, or a number.  A key is the token sequence
\* between its quotes; a value is its type and its tokens.
Fail == [ok |-> FALSE, val |-> <<>>, next |-> 0]

\* a JSON string from the token after its opening quote to its closing quote
RECURSIVE ScanString(_, _, _)
ScanString(t, i, acc) ==
    IF i > Len(t) THEN Fail
    ELSE IF t[i] = DQ THEN [ok |-> TRUE, val |-> acc, next |-> i + 1]
    ELSE IF t[i] = BS
         THEN IF i + 1 <= Len(t) /\ t[i + 1] \in {DQ, BS}
              THEN ScanString(t, i + 2, Append(acc, t[i + 1]))
              ELSE Fail
    ELSE ScanString(t, i + 1, Append(acc, t[i]))

\* the value of a JSON string that was scanned
StringValue(str) ==
    IF str.ok
    THEN [ok |-> TRUE, val |-> [type |-> "str", val |-> str.val], next |-> str.next]
    ELSE Fail

ParseScalar(t, i) ==
    IF i > Len(t) THEN Fail
    ELSE IF t[i] = DQ THEN StringValue(ScanString(t, i + 1, <<>>))
    ELSE IF t[i] \in Numbers
         THEN [ok |-> TRUE, val |-> [type |-> "num", val |-> <<t[i]>>], next |-> i + 1]
    ELSE IF t[i] \in {"true", "false", "null"}
         THEN [ok |-> TRUE, val |-> [type |-> "literal", val |-> <<t[i]>>], next |-> i + 1]
    ELSE Fail

\* dict[key] = value
Put(dict, key, value) ==
    [k \in (DOMAIN dict) \cup {key} |-> IF k = key THEN value ELSE dict[k]]

\* the members of an object, from the first token of a member
RECURSIVE ParseMembers(_, _, _)

\* after the value of a member: the object ends or another member follows
MemberEnd(t, dict, key, value) ==
    IF ~value.ok \/ SkipWs(t, value.next) > Len(t) THEN Fail
    ELSE IF t[SkipWs(t, value.next)] = "}"
         THEN [ok |-> TRUE, val |-> Put(dict, key.val, value.val),
               next |-> SkipWs(t, value.next) + 1]
    ELSE IF t[SkipWs(t, value.next)] = ","
         THEN ParseMembers(t, SkipWs(t, SkipWs(t, value.next) + 1),
                           Put(dict, key.val, value.val))
    ELSE Fail

\* after the key of a member: a colon and the value
MemberValue(t, dict, key) ==
    IF ~key.ok \/ SkipWs(t, key.next) > Len(t) THEN Fail
    ELSE IF t[SkipWs(t, key.next)] # ":" THEN Fail
    ELSE MemberEnd(t, dict, key, ParseScalar(t, SkipWs(t, SkipWs(t, key.next) + 1)))

ParseMembers(t, i, dict) ==
    IF i > Len(t) \/ t[i] # DQ THEN Fail
    ELSE MemberValue(t, dict, ScanString(t, i + 1, <<>>))

EmptyDict == [k \in {} |-> <<>>]

\* the value that starts at the first token i of t is the whole of t, or the
\* text is no JSON
Whole(t, i, parsed) ==
    IF parsed.ok /\ SkipWs(t, parsed.next) = Len(t) + 1
    THEN [ok |-> TRUE, is_dict |-> (t[i] = "{"), val |-> parsed.val]
    ELSE [ok |-> FALSE, is_dict |-> FALSE, val |-> <<>>]

LoadsFrom(t, i) ==
    Whole(t, i, IF i > Len(t) THEN Fail
                ELSE IF t[i] = "{"
                     THEN IF SkipWs(t, i + 1) <= Len(t) /\ t[SkipWs(t, i + 1)] = "}"
                          THEN [ok |-> TRUE, val |-> EmptyDict, next |-> SkipWs(t, i + 1) + 1]
                          ELSE ParseMembers(t, SkipWs(t, i + 1), EmptyDict)
                ELSE ParseScalar(t, i))

\* json.loads(t): ok is FALSE for JSONDecodeError
JsonLoads(t) == LoadsFrom(t, SkipWs(t, 1))

\* (variant: any object is accepted, whatever its keys)
ValidateAnyDict(parsed, expected_keys) == parsed.is_dict

\* _validate_json_structure
ValidateJsonStructure(parsed, expected_keys) ==
    /\ parsed.is_dict
    /\ expected_keys # <<>> =>
          \A n \in 1..Len(expected_keys) : <<expected_keys[n]>> \in DOMAIN parsed.val

\* the substrings { ... } of t without a brace inside, in the order of the
\* text: the matches of \{[^{}]*\}
RECURSIVE InnerObjectsFrom(_, _)
InnerObjectsFrom(t, i) ==
    LET opens == {j \in i..Len(t) :
                     /\ t[j] = "{"
                     /\ \E k \in (j + 1)..Len(t) :
                           t[k] = "}" /\ \A m \in (j + 1)..(k - 1) : t[m] \notin {"{", "}"}}
    IN  IF opens = {} THEN <<>>
        ELSE LET open == First(opens)
                 close == First({k \in (open + 1)..Len(t) : t[k] = "}"})
             IN  <<SubSeq(t, open, close)>> \o InnerObjectsFrom(t, close + 1)

\* the quoted keys occur in seg in this order, from position i on
RECURSIVE HasInOrder(_, _, _)
HasInOrder(seg, i, keys) ==
    IF keys = <<>> THEN TRUE
    ELSE LET at == {j \in i..(Len(seg) - 2) :
                       seg[j] = DQ /\ seg[j + 1] = Head(keys) /\ seg[j + 2] = DQ}
         IN  at # {} /\ HasInOrder(seg, First(at) + 3, Tail(keys))

\* the matches that have the quoted keys inside, in this order
WithKeys(matches, keys) == SelectSeq(matches, LAMBDA seg : HasInOrder(seg, 2, keys))

\* the match of \{.*\}: from the first { to the last }
GreedyObject(t) ==
    LET opens == {i \in 1..Len(t) : t[i] = "{"}
        first == IF opens = {} THEN 0 ELSE First(opens)
        closes == {i \in (first + 1)..Len(t) : t[i] = "}"}
    IN  IF first = 0 \/ closes = {} THEN <<>>
        ELSE <<SubSeq(t, first, CHOOSE i \in closes : \A j \in closes : i >= j)>>

\* the matches of the eight json_patterns, lines 50-63, in their order
Matches(inner, greedy) ==
    WithKeys(inner, <<"confidence", "reasoning", "follow_up">>)
    \o WithKeys(inner, <<"quality_score", "strengths", "improvement_areas">>)
    \o WithKeys(inner, <<"confidence">>)
    \o WithKeys(inner, <<"quality_score">>)
    \o inner
    \o greedy
    \o WithKeys(greedy, <<"confidence">>)
    \o WithKeys(greedy, <<"quality_score">>)

\* re.findall for each of json_patterns
RegexCandidates(t) == Matches(InnerObjectsFrom(t, 1), GreedyObject(t))

NextDQ(t, i) ==
    LET quotes == {j \in i..Len(t) : t[j] = DQ}
    IN  IF quotes = {} THEN 0 ELSE First(quotes)

\* re.sub(r'([^\\])"([^"]*)"([^"]*)"', r'\1"\2\\"\3"', text)
RECURSIVE EscapeInnerQuotes(_, _)
EscapeInnerQuotes(t, i) ==
    LET starts == {s \in i..(Len(t) - 1) :
                      /\ t[s] # BS /\ t[s + 1] = DQ
                      /\ NextDQ(t, s + 2) # 0
                      /\ NextDQ(t, NextDQ(t, s + 2) + 1) # 0}
    IN  IF starts = {} THEN SubSeq(t, i, Len(t))
        ELSE LET s == First(starts)
                 j == NextDQ(t, s + 2)
                 k == NextDQ(t, j + 1)
             IN  SubSeq(t, i, s) \o <<DQ>> \o SubSeq(t, s + 2, j - 1) \o <<BS, DQ>>
                 \o SubSeq(t, j + 1, k - 1) \o <<DQ>> \o EscapeInnerQuotes(t, k + 1)

\* re.sub(r'(\s*)(\w+)(\s*):', r'\1"\2"\3:', text)
RECURSIVE QuoteKeys(_, _)
QuoteKeys(t, i) ==
    LET keys == {k \in i..Len(t) :
                    IsWord(t[k]) /\ SkipWs(t, k + 1) <= Len(t) /\ t[SkipWs(t, k + 1)] = ":"}
    IN  IF keys = {} THEN SubSeq(t, i, Len(t))
        ELSE SubSeq(t, i, First(keys) - 1) \o <<DQ, t[First(keys)], DQ>>
             \o QuoteKeys(t, First(keys) + 1)

\* re.sub(r',(\s*[}\]])', r'\1', text)
RECURSIVE DropTrailingCommas(_, _)
DropTrailingCommas(t, i) ==
    LET commas == {c \in i..Len(t) :
                      /\ t[c] = ","
                      /\ SkipWs(t, c + 1) <= Len(t)
                      /\ t[SkipWs(t, c + 1)] \in {"}", "]"}}
    IN  IF commas = {} THEN SubSeq(t, i, Len(t))
        ELSE SubSeq(t, i, First(commas) - 1) \o DropTrailingCommas(t, First(commas) + 1)

\* text.replace("'", '"')
DoubleQuotes(t) == [i \in 1..Len(t) |-> IF t[i] = SQ THEN DQ ELSE t[i]]

\* _fix_common_json_issues
FixCommonJsonIssues(text) ==
    DoubleQuotes(DropTrailingCommas(QuoteKeys(EscapeInnerQuotes(text, 1), 1), 1))

NONE == [ok |-> FALSE, val |-> EmptyDict]

\* a candidate that json.loads has parsed passes _validate_json_structure
Validated(parsed, expected_keys) ==
    parsed.ok /\ ValidateJsonStructure(parsed, expected_keys)

\* json.loads and _validate_json_structure on one candidate
Accepts(candidate, expected_keys) == Validated(JsonLoads(candidate), expected_keys)

\* the candidates for a cleaned text
Candidates(cleaned_text) ==
    <<cleaned_text>> \o RegexCandidates(cleaned_text) \o <<FixCommonJsonIssues(cleaned_text)>>

\* the candidates of parse_llm_json in the order it tries them: the cleaned
\* text, the regex matches, the fixed text
Strategies(response_text) == Candidates(CleanText(response_text))

\* the first of the accepted candidates is returned
FirstOf(tries, good) ==
    IF good = {} THEN NONE
    ELSE [ok |-> TRUE, val |-> JsonLoads(tries[First(good)]).val]

FirstAccepted(tries, expected_keys) ==
    FirstOf(tries, {n \in 1..Len(tries) : Accepts(tries[n], expected_keys)})

\* parse_llm_json
ParseLlmJson(response_text, expected_keys) ==
    IF Strip(response_text) = <<>> THEN NONE
    ELSE FirstAccepted(Strategies(response_text), expected_keys)

Str(toks) == [type |-> "str", val |-> toks]
Num(tok) == [type |-> "num", val |-> <<tok>>]
Pair(key, value) == [key |-> key, value |-> value]

\* json.dumps of a string: quotes and backslashes are escaped
RECURSIVE Escaped(_)
Escaped(toks) ==
    IF toks = <<>> THEN <<>>
    ELSE (IF Head(toks) \in {DQ, BS} THEN <<BS, Head(toks)>> ELSE <<Head(toks)>>)
         \o Escaped(Tail(toks))

\* one value as json.dumps writes it, between the given quotes
DumpValue(value, quote) ==
    IF value.type = "str"
    THEN <<quote>> \o (IF quote = DQ THEN Escaped(value.val) ELSE value.val) \o <<quote>>
    ELSE value.val

\* the members of a mapping, separated by ", "
RECURSIVE DumpMembers(_, _, _)
DumpMembers(x, quote, key_quote) ==
    IF x = <<>> THEN <<>>
    ELSE key_quote \o <<Head(x).key>> \o key_quote \o <<":", WS>> \o DumpValue(Head(x).value, quote)
         \o (IF Len(x) > 1 THEN <<",", WS>> ELSE <<>>)
         \o DumpMembers(Tail(x), quote, key_quote)

\* json.dumps(x)
Dump(x) == <<"{">> \o DumpMembers(x, DQ, <<DQ>>) \o <<"}">>

\* the ways an LLM writes the mapping x
Styles ==
    {"plain", "fenced", "single", "fenced_single", "prose", "trailing_comma", "bare_keys"}

Written(x, style) ==
    CASE style = "plain" -> Dump(x)
      [] style = "fenced" -> FenceJson \o <<WS>> \o Dump(x) \o <<WS>> \o Fence
      [] style = "single" -> <<"{">> \o DumpMembers(x, SQ, <<SQ>>) \o <<"}">>
      [] style = "fenced_single" ->
            FenceJson \o <<WS>> \o <<"{">> \o DumpMembers(x, SQ, <<SQ>>) \o <<"}">> \o <<WS>> \o Fence
      [] style = "prose" -> <<"sure", "!", WS>> \o Dump(x) \o <<WS, "done">>
      [] style = "trailing_comma" -> <<"{">> \o DumpMembers(x, DQ, <<DQ>>) \o <<",", "}">>
      [] OTHER -> <<"{">> \o DumpMembers(x, DQ, <<>>) \o <<"}">>

\* the dict that the pairs of x make
AsDict(x) ==
    [k \in {<<x[n].key>> : n \in 1..Len(x)} |->
        x[CHOOSE n \in 1..Len(x) : x[n].key = k[1] /\ \A m \in (n + 1)..Len(x) : x[m].key # k[1]].value]

KeysOf(x) == [n \in 1..Len(x) |-> x[n].key]

\* mappings an LLM is asked for
Mappings ==
    { <<Pair("confidence", Num("0.8")), Pair("reasoning", Str(<<"ok">>)),
        Pair("follow_up", Str(<<"next", "?">>))>>,
      <<Pair("confidence", Num("0.8"))>>,
      <<Pair("quality_score", Num("0.8")), Pair("reasoning", Str(<<"ok">>))>>,
      <<Pair("reasoning", Str(<<"use", WS, BT, "ls", BT, "!">>))>>,
      <<Pair("reasoning", Str(<<"see", WS, "note", ":", WS, "ok">>))>>,
      <<Pair("reasoning", Str(<<"say", WS, DQ, "hi", DQ>>)), Pair("confidence", Num("0.5"))>>,
      <<>> }

\* texts that are no mapping at all
OtherTexts ==
    { <<>>, <<WS>>, <<"sure", "!">>, <<"0.8">>, <<DQ, "ok", DQ>>,
      <<"{", DQ, "a", DQ, ":", WS, "0.8", "}", WS, "{", DQ, "confidence", DQ, ":", WS, "0.5", "}">> }

ExpectedKeyLists ==
    { <<>>, <<"confidence">>, <<"confidence", "reasoning">>, <<"a">> }

Literal(tok) == [type |-> "literal", val |-> <<tok>>]
List(item) == [type |-> "list", val |-> <<item>>]

\* Python's None, json's null
NullValue == Literal("null")

\* create_fallback_response: fallback_values
FallbackValues ==
    [k \in {"confidence", "quality_score", "accuracy_score", "completeness_score",
            "clarity_score", "source_utilization_score", "confidence_appropriateness"}
        |-> Num("0.5")]
    @@ ("reasoning" :> Str(<<"Unable to parse analysis response">>))
    @@ ("follow_up" :> Str(<<"Is there anything specific about this topic you'd like to know more about?">>))
    @@ ("strengths" :> List("Response provided"))
    @@ ("improvement_areas" :> List("Unable to analyze"))
    @@ ("overall_assessment" :> Str(<<"Unable to analyze response quality">>))

\* (variant: fallback_values.get(key) without a default)
NoDefault == NullValue

\* the default of fallback_values.get(key, "Unknown")
FallbackDefault == Str(<<"Unknown">>)

\* create_fallback_response
CreateFallbackResponse(expected_keys) ==
    [k \in {<<expected_keys[n]>> : n \in 1..Len(expected_keys)} |->
        IF k[1] \in DOMAIN FallbackValues THEN FallbackValues[k[1]] ELSE FallbackDefault]

\* _perform_analysis: expected_keys
AnalysisKeys ==
    <<"quality_score", "strengths", "improvement_areas", "accuracy_score",
      "completeness_score", "clarity_score", "source_utilization_score",
      "confidence_appropriateness", "overall_assessment">>

\* _perform_validation: expected_keys
ValidationKeys ==
    <<"is_valid", "validation_score", "accuracy_validated", "completeness_validated",
      "confidence_appropriate", "issues_found", "missing_information", "validation_notes">>

\* `if parsed_json:` : a parsed, non-empty dict
Truthy(parsed) == parsed.ok /\ DOMAIN parsed.val # {}

\* the `except Exception` around the body of _perform_analysis and of
\* _perform_validation
CatchesException == TRUE

\* `if parsed_json:` and its else branch
ParsedOrFallback(parsed_json, expected_keys) ==
    IF Truthy(parsed_json) THEN parsed_json.val
    ELSE CreateFallbackResponse(expected_keys)

\* _perform_analysis and _perform_validation after the prompt is built: the
\* LLM call, the parse, the fallback; an exception of the call ends in the
\* fallback too
PerformReflection(llm_raised, llm_text, expected_keys) ==
    IF llm_raised THEN CreateFallbackResponse(expected_keys)
    ELSE ParsedOrFallback(ParseLlmJson(llm_text, expected_keys), expected_keys)

\* the log line of _analyze_response takes len(analysis["improvement_areas"]):
\* a TypeError for a number, a boolean or None; the log line of
\* _validate_response only reads its two keys
LogRaises(op, record) ==
    /\ op = "analysis"
    /\ record[<<"improvement_areas">>].type \notin {"str", "list"}

\* the log line after the record is there
LogActivity(op, record) ==
    IF LogRaises(op, record) THEN [raised |-> TRUE, val |-> <<>>]
    ELSE [raised |-> FALSE, val |-> record]

\* _analyze_response and _validate_response for a query and a response that
\* are present: the record of _perform_analysis or _perform_validation, then
\* the log line
Reflect(op, llm_raised, llm_text, expected_keys) ==
    IF llm_raised /\ ~CatchesException THEN [raised |-> TRUE, val |-> <<>>]
    ELSE LogActivity(op, PerformReflection(llm_raised, llm_text, expected_keys))

\* the call has returned out, or raised
ReflectionReturns(call, out) ==
    [call EXCEPT !.at = "returned", !.raised = out.raised,
                 !.result = [ok |-> ~out.raised, val |-> out.val]]

\* a complete answer to the analysis prompt, and one to the validation prompt
FullAnalysis ==
    <<Pair("quality_score", Num("0.8")), Pair("strengths", Str(<<"clear">>)),
      Pair("improvement_areas", Str(<<"examples">>)), Pair("accuracy_score", Num("0.8")),
      Pair("completeness_score", Num("0.5")), Pair("clarity_score", Num("0.8")),
      Pair("source_utilization_score", Num("0.8")),
      Pair("confidence_appropriateness", Num("0.8")),
      Pair("overall_assessment", Str(<<"good">>))>>

FullValidation ==
    <<Pair("is_valid", Literal("true")), Pair("validation_score", Num("0.8")),
      Pair("accuracy_validated", Literal("true")), Pair("completeness_validated", Literal("false")),
      Pair("confidence_appropriate", Literal("true")), Pair("issues_found", Str(<<"none">>)),
      Pair("missing_information", Literal("null")), Pair("validation_notes", Str(<<"ok">>))>>

\* an answer to the analysis prompt with a number where a list is asked for
UnsizedAnalysis ==
    [FullAnalysis EXCEPT ![3] = Pair("improvement_areas", Num("0.5"))]

\* the text of call_llm for an exception of the provider
LlmErrorText == <<"Error", ":", WS, "timeout">>

\* what the LLM answers to a reflection prompt
ReflectionTexts(full) ==
    {Written(full, style) : style \in Styles}
    \cup {Written(SubSeq(full, 1, 2), "plain"), LlmErrorText, <<>>, <<"sure", "!">>}

\* a call that is about to be made, with its arguments
Call(op, x, style, text, expected_keys, llm_raised) ==
    [NoParse EXCEPT !.at = "called", !.op = op, !.x = x, !.style = style, !.text = text,
                    !.expected_keys = expected_keys, !.llm_raised = llm_raised]

\* the calls of parse_llm_json: a mapping written in some style, or a text
\* that is no mapping
ParseCalls ==
    UNION {{Call("parse", x, style, Written(x, style), expected_keys, FALSE) :
                style \in Styles, expected_keys \in ExpectedKeyLists \cup {KeysOf(x)}} :
           x \in Mappings}
    \cup {Call("parse", <<>>, "other", text, expected_keys, FALSE) :
              text \in OtherTexts, expected_keys \in ExpectedKeyLists}

\* the calls of create_fallback_response
FallbackCalls ==
    {Call("fallback", <<>>, None, <<>>, expected_keys, FALSE) :
        expected_keys \in ExpectedKeyLists \cup {AnalysisKeys, ValidationKeys}}

\* the calls of _perform_analysis and _perform_validation, with what the LLM
\* does when asked
ReflectionCalls ==
    {Call("analysis", <<>>, None, llm_text, AnalysisKeys, llm_raised) :
        llm_text \in ReflectionTexts(FullAnalysis) \cup {Written(UnsizedAnalysis, "plain")},
        llm_raised \in BOOLEAN}
    \cup {Call("validation", <<>>, None, llm_text, ValidationKeys, llm_raised) :
              llm_text \in ReflectionTexts(FullValidation), llm_raised \in BOOLEAN}

\* parse_llm_json
Parse ==
    /\ parser.at = "called" /\ parser.op = "parse"
    /\ parser' = [parser EXCEPT !.at = "returned",
                                !.result = ParseLlmJson(parser.text, parser.expected_keys)]
    /\ UNCHANGED <<memVars, searchVars, reqVars, llmVars, refl>>

\* create_fallback_response
Fallback ==
    /\ parser.at = "called" /\ parser.op = "fallback"
    /\ parser' = [parser EXCEPT !.at = "returned",
                                !.result = [ok |-> TRUE,
                                            val |-> CreateFallbackResponse(parser.expected_keys)]]
    /\ UNCHANGED <<memVars, searchVars, reqVars, llmVars, refl>>

\* ReflectionAgent._analyze_response
Analysis ==
    /\ parser.at = "called" /\ parser.op = "analysis"
    /\ parser' = ReflectionReturns(parser, Reflect("analysis", parser.llm_raised, parser.text, AnalysisKeys))
    /\ UNCHANGED <<memVars, searchVars, reqVars, llmVars, refl>>

\* ReflectionAgent._validate_response
Validation ==
    /\ parser.at = "called" /\ parser.op = "validation"
    /\ parser' = ReflectionReturns(parser, Reflect("validation", parser.llm_raised, parser.text, ValidationKeys))
    /\ UNCHANGED <<memVars, searchVars, reqVars, llmVars, refl>>

InitParser ==
    /\ MemoryIdle
    /\ index = <<>> /\ searchOut = NoSearch
    /\ rpc = [r \in Tasks |-> "idle"] /\ req = [r \in Tasks |-> NoRequest]
    /\ llm = NoLlmCall
    /\ parser \in ParseCalls \cup FallbackCalls \cup ReflectionCalls
    /\ refl = NoReflections

NextParser ==
    \/ Parse
    \/ Fallback
    \/ Analysis
    \/ Validation

SpecParser == InitParser /\ [][NextParser]_vars

---------------------------------------------------------------------------
(* Properties of the structured-output parser *)

\* the dict parsed has every expected key
EveryKeyIn(parsed, expected_keys) ==
    /\ parsed.ok
    /\ parsed.is_dict
    /\ \A n \in 1..Len(expected_keys) : <<expected_keys[n]>> \in DOMAIN parsed.val

HasEveryKey(candidate, expected_keys) == EveryKeyIn(JsonLoads(candidate), expected_keys)

\* result is the dict of the first of the candidates good, and NONE when
\* there is none
IsFirstOf(result, tries, good, expected_keys) ==
    /\ result.ok =>
          \A n \in 1..Len(expected_keys) : <<expected_keys[n]>> \in DOMAIN result.val
    /\ result.ok <=> good # {}
    /\ result.ok =>
          \E n \in good :
              /\ \A m \in good : n <= m
              /\ result.val = JsonLoads(tries[n]).val
    /\ ~result.ok => result = NONE

IsFirstGood(result, tries, expected_keys) ==
    IsFirstOf(result, tries, {n \in 1..Len(tries) : HasEveryKey(tries[n], expected_keys)},
              expected_keys)

\* C18: parse returns a mapping only with every expected key in it; the
\* mapping is that of the first candidate, in the order direct parse, regex
\* matches, fix-up pass, that parses to a dict with every expected key; when
\* there is no such candidate the result is NONE.
C18_ParseValidated ==
    (parser.at = "returned" /\ parser.op = "parse") =>
        IsFirstGood(parser.result,
                    IF Strip(parser.text) = <<>> THEN <<>> ELSE Strategies(parser.text),
                    parser.expected_keys)

\* a text whose object lacks an expected key has been refused
C18_Witness ==
    /\ parser.at = "returned"
    /\ parser.op = "parse"
    /\ parser.style = "plain"
    /\ parser.expected_keys = <<"confidence", "reasoning">>
    /\ HasEveryKey(parser.text, <<"confidence">>)
    /\ parser.result = NONE

\* C19: a mapping written by dump, plain, in code fences or with single
\* quotes, and parsed for its own keys, comes back equal to itself.
C19_RoundTrip ==
    (/\ parser.at = "returned"
     /\ parser.op = "parse"
     /\ parser.style \in {"plain", "fenced", "single", "fenced_single"}
     /\ parser.expected_keys = KeysOf(parser.x)) =>
        (parser.result.ok /\ parser.result.val = AsDict(parser.x))

\* the LLM answer of a reflection call was not turned into a record: the
\* call failed or no strategy could parse its text
Unparsed ==
    parser.llm_raised \/ ParseLlmJson(parser.text, parser.expected_keys) = NONE

\* C20: the fallback has exactly the expected keys and no None among its
\* values; an analysis or a validation whose LLM answer no strategy could
\* parse raises nothing and returns the fallback record, with every expected
\* key in it.
C20_FallbackComplete ==
    /\ (parser.at = "returned" /\ parser.op = "fallback") =>
          /\ DOMAIN parser.result.val =
                {<<parser.expected_keys[n]>> : n \in 1..Len(parser.expected_keys)}
          /\ \A k \in DOMAIN parser.result.val : parser.result.val[k] # NullValue
    /\ (parser.at = "returned" /\ parser.op \in {"analysis", "validation"} /\ Unparsed) =>
          /\ ~parser.raised
          /\ parser.result.val = CreateFallbackResponse(parser.expected_keys)
          /\ \A n \in 1..Len(parser.expected_keys) :
                /\ <<parser.expected_keys[n]>> \in DOMAIN parser.result.val
                /\ parser.result.val[<<parser.expected_keys[n]>>] # NullValue

\* a validation whose LLM answer no strategy could parse has returned the
\* fallback record
C20_Witness ==
    /\ parser.at = "returned"
    /\ parser.op = "validation"
    /\ ~parser.llm_raised
    /\ parser.text = LlmErrorText
    /\ ParseLlmJson(parser.text, parser.expected_keys) = NONE
    /\ DOMAIN parser.result.val = {<<ValidationKeys[n]>> : n \in 1..Len(ValidationKeys)}

---------------------------------------------------------------------------
(* ReflectionAgent.process: analyze, improve and validate, called one      *)
(* after the other on one agent.  The agent sets no attribute in any of    *)
(* them; refl.log is the history of the calls: the arguments, what the     *)
(* LLM answered and what the call returned or raised.                      *)

\* number of calls of process in a behaviour
MaxReflections == 2

\* the "analysis" argument of improve: absent, {}, a dict whose strengths
\* and improvement_areas are lists of strings, and a dict where they are numbers
NoAnalysis == [present |-> FALSE, empty |-> TRUE, joinable |-> FALSE]
EmptyAnalysis == [present |-> TRUE, empty |-> TRUE, joinable |-> FALSE]
ListedAnalysis == [present |-> TRUE, empty |-> FALSE, joinable |-> TRUE]
ScoredAnalysis == [present |-> TRUE, empty |-> FALSE, joinable |-> FALSE]

\* `not analysis`
AnalysisMissing(analysis) == ~analysis.present \/ analysis.empty

\* (variant: nothing is checked before the work starts)
AcceptsAnything(data) == FALSE

\* `if not query or not response`, of _analyze_response and _validate_response
RejectsData(data) == QueryMissing(data.query) \/ ResponseMissing(data.response)

\* (variant: improve asks for a validation made earlier)
ImproveRejectsUnvalidated(data) ==
    \/ RejectsData(data)
    \/ AnalysisMissing(data.analysis)
    \/ \A n \in 1..Len(refl.log) : refl.log[n].op # "validate"

\* `if not query or not original_response or not analysis`
ImproveRejects(data) == RejectsData(data) \/ AnalysisMissing(data.analysis)

\* texts the LLM writes when asked to improve ShortResponse (40 characters)
\* or LongResponse (250 characters)
EmptyText == [name |-> "empty", len |-> 0, code |-> FALSE, steps |-> FALSE]
Improved48 == [name |-> "improved48", len |-> 48, code |-> FALSE, steps |-> FALSE]
Improved49 == [name |-> "improved49", len |-> 49, code |-> TRUE, steps |-> TRUE]
Improved300 == [name |-> "improved300", len |-> 300, code |-> TRUE, steps |-> TRUE]
Improved301 == [name |-> "improved301", len |-> 301, code |-> FALSE, steps |-> FALSE]

\* the texts with one of "example", "instance", "case", and those with one
\* of "link", "reference", "source"
MentionsExample(text) == text.name \in {"improved49"}
MentionsReference(text) == text.name \in {"improved301"}

\* what _call_llm hands back to improve: kind is the LlmText kind; is_str is
\* false for the None of a completion without content
Answer(kind, text) == [kind |-> kind, is_str |-> TRUE, text |-> text]
NoAnswer == [kind |-> None, is_str |-> FALSE, text |-> EmptyText]
NoContent == [kind |-> "empty", is_str |-> FALSE, text |-> EmptyText]

ImproveAnswers ==
    {Answer("text", t) : t \in {Improved48, Improved49, Improved300, Improved301}}
    \cup {Answer("empty", EmptyText), NoContent,
          Answer("error_text", ErrorText), Answer("busy", BusyText)}

LengthNum == 12
LengthDen == 10

\* (variant: `len(improved) >= len(original) * 1.2`)
AtLeastFifthLonger(original, improved) == improved.len * LengthDen >= original.len * LengthNum

\* len(improved) > len(original) * 1.2
FifthLonger(original, improved) == improved.len * LengthDen > original.len * LengthNum

AddedDetail == "Added more detailed information"
UnableToImprove == "Unable to improve response"

\* _identify_improvements
IdentifyImprovements(original, improved) ==
    LET improvements ==
            (IF FifthLonger(original, improved) THEN <<AddedDetail>> ELSE <<>>)
         \o (IF improved.code /\ ~original.code THEN <<"Added code examples">> ELSE <<>>)
         \o (IF improved.steps /\ ~original.steps THEN <<"Added step-by-step structure">> ELSE <<>>)
         \o (IF MentionsExample(improved) /\ ~MentionsExample(original)
             THEN <<"Added examples">> ELSE <<>>)
         \o (IF MentionsReference(improved) /\ ~MentionsReference(original)
             THEN <<"Added references to sources">> ELSE <<>>)
    IN  IF improvements = <<>> THEN <<"Clarified and refined existing content">>
        ELSE improvements

NoImprovement ==
    [original_response |-> EmptyText, improved_response |-> EmptyText, improvements |-> <<>>]

\* what a call leaves in the history
Reflected(op, data, answer, tokens, llm_calls, raised, improvement, record) ==
    [op |-> op, query |-> data.query, response |-> data.response, analysis |-> data.analysis,
     answer |-> answer, answer_tokens |-> tokens, llm_calls |-> llm_calls,
     raised |-> raised, improvement |-> improvement, record |-> record]

\* _improve_response and _generate_improved_response.  The prompt, built
\* before the try, reads query.query_text and original_response.response_text
\* and joins the strengths; len(None) inside the try is caught by the except.
ImproveOutcome(data, answer) ==
    IF ImproveRejects(data)
    THEN Reflected("improve", data, NoAnswer, <<>>, 0, "ValueError", NoImprovement, EmptyDict)
    ELSE IF ~HasAttributes(data.response)
    THEN Reflected("improve", data, NoAnswer, <<>>, 0, "AttributeError", NoImprovement, EmptyDict)
    ELSE IF ~data.analysis.joinable
    THEN Reflected("improve", data, NoAnswer, <<>>, 0, "TypeError", NoImprovement, EmptyDict)
    ELSE LET original == data.response.response_text
         IN  IF ~answer.is_str
             THEN Reflected("improve", data, answer, <<>>, 1, None,
                            [original_response |-> original, improved_response |-> original,
                             improvements |-> <<UnableToImprove>>], EmptyDict)
             ELSE Reflected("improve", data, answer, <<>>, 1, None,
                            [original_response |-> original, improved_response |-> answer.text,
                             improvements |-> IdentifyImprovements(original, answer.text)],
                            EmptyDict)

\* _analyze_response and _validate_response: the check of the arguments, the
\* prompt (which reads response.response_text), then the LLM call, the parse
\* and the log line
RecordOutcome(op, parse_op, data, tokens, expected_keys) ==
    IF RejectsData(data)
    THEN Reflected(op, data, NoAnswer, <<>>, 0, "ValueError", NoImprovement, EmptyDict)
    ELSE IF ~HasAttributes(data.response)
    THEN Reflected(op, data, NoAnswer, <<>>, 0, "AttributeError", NoImprovement, EmptyDict)
    ELSE LET out == Reflect(parse_op, FALSE, tokens, expected_keys)
         IN  Reflected(op, data, NoAnswer, tokens, 1,
                       IF out.raised THEN "TypeError" ELSE None, NoImprovement,
                       IF out.raised THEN EmptyDict ELSE out.val)

Data(query, response, analysis) == [query |-> query, response |-> response, analysis |-> analysis]

\* the arguments of analyze and of validate
ReflectData ==
    {Data(Q1, ShortResponse, NoAnalysis), Data(NoQuery, ShortResponse, NoAnalysis),
     Data(Q1, NoResponse, NoAnalysis), Data(Q1, DictResponse, NoAnalysis)}

\* the arguments of improve
ImproveData ==
    {Data(Q1, ShortResponse, ListedAnalysis), Data(Q1, LongResponse, ListedAnalysis),
     Data(NoQuery, ShortResponse, ListedAnalysis), Data(Q1, NoResponse, ListedAnalysis),
     Data(Q1, ShortResponse, NoAnalysis), Data(Q1, ShortResponse, EmptyAnalysis),
     Data(Q1, ShortResponse, ScoredAnalysis), Data(Q1, DictResponse, ListedAnalysis)}

\* what the LLM answers to the analysis prompt and to the validation prompt
AnalysisAnswers == {Written(FullAnalysis, "plain"), LlmErrorText, <<>>}
ValidationAnswers == {Written(FullValidation, "plain"), LlmErrorText, <<>>}

\* the history with one more call
Logged(entry) == [refl EXCEPT !.log = Append(@, entry)]

\* process({"operation": "analyze", ...})
AnalyzeResponse ==
    /\ Len(refl.log) < MaxReflections
    /\ \E data \in ReflectData, tokens \in AnalysisAnswers :
          refl' = Logged(RecordOutcome("analyze", "analysis", data, tokens, AnalysisKeys))
    /\ UNCHANGED <<memVars, searchVars, reqVars, llmVars, parser>>

\* process({"operation": "improve", ...})
ImproveResponse ==
    /\ Len(refl.log) < MaxReflections
    /\ \E data \in ImproveData, answer \in ImproveAnswers :
          refl' = Logged(ImproveOutcome(data, answer))
    /\ UNCHANGED <<memVars, searchVars, reqVars, llmVars, parser>>

\* process({"operation": "validate", ...})
ValidateResponse ==
    /\ Len(refl.log) < MaxReflections
    /\ \E data \in ReflectData, tokens \in ValidationAnswers :
          refl' = Logged(RecordOutcome("validate", "validation", data, tokens, ValidationKeys))
    /\ UNCHANGED <<memVars, searchVars, reqVars, llmVars, parser>>

InitReflection ==
    /\ MemoryIdle
    /\ SearchIdle
    /\ RequestsIdle
    /\ LlmIdle
    /\ ParserIdle

NextReflection ==
    \/ AnalyzeResponse
    \/ ImproveResponse
    \/ ValidateResponse

SpecReflection == InitReflection /\ [][NextReflection]_vars

---------------------------------------------------------------------------
(* Properties of the ReflectionAgent *)

\* the calls of improve that returned
Improved == {n \in 1..Len(refl.log) : refl.log[n].op = "improve" /\ refl.log[n].raised = None}

\* C28 as stated: the note on added detail is among the improvements exactly
\* when the improved text is at least 20% longer than the original, an
\* increase of exactly 20% included.
C28_DetailFromFifthLonger ==
    \A n \in Improved :
        LET e == refl.log[n]
        IN  e.answer.is_str =>
              ((\E k \in 1..Len(e.improvement.improvements) : e.improvement.improvements[k] = AddedDetail)
                 <=> 5 * e.improvement.improved_response.len >= 6 * e.improvement.original_response.len)

\* C28, amended: the note on added detail is among the improvements exactly
\* when the improved text is more than 20% longer than the original; at an
\* increase of exactly 20% it is not.
C28_DetailAboveFifthLonger ==
    \A n \in Improved :
        LET e == refl.log[n]
        IN  e.answer.is_str =>
              ((\E k \in 1..Len(e.improvement.improvements) : e.improvement.improvements[k] = AddedDetail)
                 <=> 5 * e.improvement.improved_response.len > 6 * e.improvement.original_response.len)

\* improve has returned a text exactly 20% longer than the original without
\* the note, and a text one character longer than that with it
C28_Witness ==
    \E n, m \in Improved :
        /\ 5 * refl.log[n].improvement.improved_response.len
              = 6 * refl.log[n].improvement.original_response.len
        /\ refl.log[n].improvement.original_response.len > 0
        /\ \A k \in 1..Len(refl.log[n].improvement.improvements) :
              refl.log[n].improvement.improvements[k] # AddedDetail
        /\ refl.log[m].improvement.improved_response.len
              = refl.log[n].improvement.improved_response.len + 1
        /\ refl.log[m].improvement.improvements[1] = AddedDetail

\* the provider failed during the call: call_llm handed back the text it
\* makes of the exception, or the text of the exhausted rate limit
ProviderFailedIn(e) == e.answer.kind \in {"error_text", "busy"}

\* C30: when the LLM provider fails during improve, the call returns the
\* original text as improved_response with the single note "Unable to improve
\* response"; the text of the provider error is not returned as the
\* improved response.
C30_OriginalKeptOnFailure ==
    \A n \in Improved :
        LET e == refl.log[n]
        IN  ProviderFailedIn(e) =>
              /\ e.improvement.improved_response = e.improvement.original_response
              /\ e.improvement.improvements = <<UnableToImprove>>
              /\ e.improvement.improved_response # ErrorText

\* the arguments of a call are those of a well-formed improve
WellFormedImprove(e) ==
    /\ e.op = "improve"
    /\ e.query \in QueryPool
    /\ e.response \in ResponsePool
    /\ e.analysis = ListedAnalysis

\* what went into call n: the operation, its arguments, what the LLM answered
InputsOf(n) ==
    <<refl.log[n].op, refl.log[n].query, refl.log[n].response, refl.log[n].analysis,
      refl.log[n].answer, refl.log[n].answer_tokens>>

\* what came out of call n
OutcomeOf(n) ==
    <<refl.log[n].raised, refl.log[n].llm_calls, refl.log[n].improvement, refl.log[n].record>>

\* C24: the operations of the ReflectionAgent are independent.  A well-formed
\* improve returns whether or not a validate (or an analyze) was called
\* before it, and two calls with the same operation, the same arguments and
\* the same LLM answer have the same outcome wherever they stand in the
\* sequence of calls.
C24_OperationsIndependent ==
    /\ \A n \in 1..Len(refl.log) :
          WellFormedImprove(refl.log[n]) => refl.log[n].raised = None
    /\ \A n, m \in 1..Len(refl.log) :
          InputsOf(n) = InputsOf(m) => OutcomeOf(n) = OutcomeOf(m)

\* a well-formed improve returned an improved text as the first call of the
\* agent, before any validate, and the same call made again after it
\* returned the same
C24_Witness ==
    /\ Len(refl.log) = 2
    /\ WellFormedImprove(refl.log[1])
    /\ refl.log[1].raised = None
    /\ refl.log[1].answer.kind = "text"
    /\ refl.log[1].improvement.improved_response = refl.log[1].answer.text
    /\ InputsOf(2) = InputsOf(1)
    /\ OutcomeOf(2) = OutcomeOf(1)

---------------------------------------------------------------------------
(* Calls with a missing argument, on each of the three entry points: the   *)
(* MemoryAgent, the /api/query handler and the ReflectionAgent.  The       *)
(* ReflectionAgent shares nothing with the other two and the handler only  *)
(* writes the memory, so one of the three is exercised per behaviour.      *)

AllIdle == \A r \in Tasks : rpc[r] = "idle"
MemoryUntouched == clock = 0 /\ memOut.op = None
NoReflection == refl.log = <<>>

\* request bodies: without a query, and with one
BodyTexts == { <<>>, <<"how", "to", "deploy", "api">> }

\* the turn of the clients of the MemoryAgent, of the request handler, and
\* of the clients of the ReflectionAgent
MemoryTurn == AllIdle /\ NoReflection
HandlerTurn == NoReflection /\ (AllIdle => MemoryUntouched)
ReflectionTurn == AllIdle /\ MemoryUntouched

StoreCall(t) == MemoryTurn /\ Store(t)
EvictCall(t) == MemoryTurn /\ Evict(t)
LearnCall(t) == MemoryTurn /\ Learn(t)

ReceiveBody(r) == HandlerTurn /\ \E query_text \in BodyTexts : Receive(r, query_text)
RetrieveChunks(r) == HandlerTurn /\ \E fault \in Faults : Retrieve(r, fault)
AskLLM(r) == HandlerTurn /\ CallLLM(r)
LLMAnswers(r) == HandlerTurn /\ LLMReturns(r, "answer", 0)
StoreAnswer(r) == HandlerTurn /\ StoreInMemory(r)
SendResponse(r) == HandlerTurn /\ Respond(r)

AnalyzeCall == ReflectionTurn /\ AnalyzeResponse
ImproveCall == ReflectionTurn /\ ImproveResponse
ValidateCall == ReflectionTurn /\ ValidateResponse

NextRejection ==
    \/ \E t \in Tasks :
          \/ StoreCall(t)
          \/ EvictCall(t)
          \/ LearnCall(t)
    \/ \E r \in Tasks :
          \/ ReceiveBody(r)
          \/ RetrieveChunks(r)
          \/ AskLLM(r)
          \/ LLMAnswers(r)
          \/ StoreAnswer(r)
          \/ SendResponse(r)
    \/ AnalyzeCall
    \/ ImproveCall
    \/ ValidateCall

SpecRejection == InitPipeline /\ [][NextRejection]_vars

\* no retrieval, no LLM call and no change of the memory in this step
NothingDone ==
    /\ memories' = memories
    /\ index' = index
    /\ searchOut' = searchOut
    /\ llm' = llm
    /\ \A r \in Tasks :
          /\ req'[r].search_results = req[r].search_results
          /\ req'[r].llm_calls = req[r].llm_calls

\* the call that the last step added to the history of the ReflectionAgent
LastReflection == refl'.log[Len(refl'.log)]

\* C21: a call without its query or its response is rejected before any
\* work: store and learn of the MemoryAgent and analyze, improve and validate
\* of the ReflectionAgent raise ValueError, the query handler fails the
\* request with an error status, and in each case there is no retrieval, no
\* LLM call and no change of the memories; a request that was rejected stays
\* without search results and LLM calls.
C21_RejectedBeforeWork ==
    /\ [][\A t \in Tasks, args \in StoreArgs :
            ((args[1] = NoQuery \/ args[2] = NoResponse)
                /\ StoreAppend(t, args[1], args[2], NoSatisfaction)) =>
               (memOut' = Raised(t, "store", "ValueError") /\ clock' = clock /\ NothingDone)]_vars
    /\ [][\A t \in Tasks, args \in LearnArgs :
            ((args[1] = NoQuery \/ args[2] = NoResponse)
                /\ LearnFromInteraction(t, args[1], args[2], args[3])) =>
               (memOut' = Raised(t, "learn", "ValueError") /\ clock' = clock /\ NothingDone)]_vars
    /\ [][\A r \in Tasks :
            Receive(r, <<>>) =>
               (rpc'[r] = "failed" /\ req'[r].response.status >= 400 /\ NothingDone)]_vars
    /\ [][(refl' # refl /\ (LastReflection.query = NoQuery \/ LastReflection.response = NoResponse)) =>
               (/\ LastReflection.raised = "ValueError"
                /\ LastReflection.llm_calls = 0
                /\ NothingDone)]_vars
    /\ [](\A r \in Tasks :
            (rpc[r] = "failed" /\ req[r].query = NoQuery) =>
               (req[r].search_results = <<>> /\ req[r].llm_calls = 0 /\ req[r].log = <<>>))

\* a request without a query was failed, with no search results and no LLM
\* call, next to a request with a query that was served
C21_Witness ==
    \E r, o \in Tasks :
        /\ rpc[r] = "failed"
        /\ req[r].query = NoQuery
        /\ req[r].response.status = 500
        /\ req[r].search_results = <<>>
        /\ rpc[o] = "done"
        /\ req[o].search_results # <<>>
        /\ req[o].llm_calls = 1

====
